---- MODULE Spec2Model ----
(***************************************************************************)
(* Keystore program: multi-key identity with threshold authorization.      *)
(* The model follows programs/keystore/src: the secp256r1 introspection    *)
(* oracle (secp256r1.rs), the execute handlers (instructions/execute.rs)   *)
(* and the ledger handlers (create.rs, add_key.rs, register_credential.rs).*)
(* Byte strings are sequences of integers 0..255, indexed from 1.          *)
(***************************************************************************)
EXTENDS Integers, Sequences, FiniteSets, TLC

(***************************************************************************)
(* Bounds of the model                                                     *)
(***************************************************************************)
\* executes are submitted only while the nonce is below this value
MaxNonce == 2
\* credential registrations are submitted only while fewer entries exist
MaxCreds == 2
\* lamports in the vault in the initial state
VaultStart == 5
\* value returned by Rent::minimum_balance(0) on the modelled host
MinBalance == 2
\* instructions in a batch handed to the oracle
MaxBatch == 3

(***************************************************************************)
(* Program constants                                                       *)
(***************************************************************************)
MAX_KEYS == 5
PUBKEY_LEN == 33
SIGNATURE_LEN == 64
HEADER_LEN == 16
SAME_IX == 65535
MAX_NAME_LEN == 32
MAX_CREDENTIAL_LEN == 256

(***************************************************************************)
(* Byte-string helpers                                                     *)
(***************************************************************************)
Fill(n, b) == [i \in 1..n |-> b]

\* u16::to_le_bytes / u16::from_le_bytes
u16_to_le_bytes(n) == <<n % 256, (n \div 256) % 256>>
u16_from_le_bytes(lo, hi) == lo + 256 * hi

\* u64::to_le_bytes, least significant byte first
RECURSIVE le_bytes(_, _)
le_bytes(n, k) == IF k = 0 THEN <<>> ELSE <<n % 256>> \o le_bytes(n \div 256, k - 1)
u64_to_le_bytes(n) == le_bytes(n, 8)

\* Rust slice data[start..end] with 0-based start, exclusive end
Slice(data, start, end) == SubSeq(data, start + 1, end)

Ok(v) == [ok |-> TRUE, val |-> v, err |-> "none"]
Err(e) == [ok |-> FALSE, val |-> <<>>, err |-> e]
\* an error together with the source line that raises it
ErrAt(e, line) == [ok |-> FALSE, val |-> <<>>, err |-> e, line |-> line]

(***************************************************************************)
(* secp256r1.rs : the verifier-instruction wire format                     *)
(***************************************************************************)
SECP256R1_PROGRAM_ID == "Secp256r1SigVerify"
KEYSTORE_PROGRAM_ID == "Keystore"
Instruction(pid, data) == [program_id |-> pid, data |-> data]

NoParsed ==
  [num_signatures |-> 0, signature_offset |-> 0, signature_ix_index |-> 0,
   pubkey_offset |-> 0, pubkey_ix_index |-> 0, message_offset |-> 0,
   message_size |-> 0, message_ix_index |-> 0]

\* Secp256r1InstructionData::try_from_slice
try_from_slice(data) ==
  IF Len(data) < HEADER_LEN THEN [ok |-> FALSE, val |-> NoParsed, err |-> "InvalidSecp256r1Instruction"]
  ELSE IF data[1] # 1 THEN [ok |-> FALSE, val |-> NoParsed, err |-> "InvalidSecp256r1Instruction"]
  ELSE [ok |-> TRUE, err |-> "none", val |->
         [num_signatures |-> data[1],
          signature_offset |-> u16_from_le_bytes(data[3], data[4]),
          signature_ix_index |-> u16_from_le_bytes(data[5], data[6]),
          pubkey_offset |-> u16_from_le_bytes(data[7], data[8]),
          pubkey_ix_index |-> u16_from_le_bytes(data[9], data[10]),
          message_offset |-> u16_from_le_bytes(data[11], data[12]),
          message_size |-> u16_from_le_bytes(data[13], data[14]),
          message_ix_index |-> u16_from_le_bytes(data[15], data[16])]]

\* Secp256r1InstructionData::extract_signature
extract_signature(parsed, instruction_data) ==
  IF parsed.signature_ix_index = SAME_IX
  THEN LET start == parsed.signature_offset
           end == start + SIGNATURE_LEN
       IN IF Len(instruction_data) >= end
          THEN Ok(Slice(instruction_data, start, end))
          ELSE Err("InvalidSecp256r1Instruction")
  ELSE Err("InvalidSecp256r1Instruction")

\* extract_pubkey that reads the offset whatever the source index says
extract_pubkey_anyix(parsed, instruction_data) ==
  LET start == parsed.pubkey_offset
      end == start + PUBKEY_LEN
  IN IF Len(instruction_data) >= end
     THEN Ok(Slice(instruction_data, start, end))
     ELSE Err("InvalidSecp256r1Instruction")

\* Secp256r1InstructionData::extract_pubkey
extract_pubkey(parsed, instruction_data) ==
  IF parsed.pubkey_ix_index = SAME_IX
  THEN LET start == parsed.pubkey_offset
           end == start + PUBKEY_LEN
       IN IF Len(instruction_data) >= end
          THEN Ok(Slice(instruction_data, start, end))
          ELSE Err("InvalidSecp256r1Instruction")
  ELSE Err("InvalidSecp256r1Instruction")

\* Secp256r1InstructionData::extract_message
extract_message(parsed, instruction_data) ==
  IF parsed.message_ix_index = SAME_IX
  THEN LET start == parsed.message_offset
           end == start + parsed.message_size
       IN IF Len(instruction_data) >= end
          THEN Ok(Slice(instruction_data, start, end))
          ELSE Err("InvalidSecp256r1Instruction")
  ELSE Err("InvalidSecp256r1Instruction")

\* build_secp256r1_instruction: the payload the helper writes
build_secp256r1_instruction(pubkey, message, signature) ==
  Instruction(SECP256R1_PROGRAM_ID,
    <<1>> \o u16_to_le_bytes(13) \o <<255>>
          \o u16_to_le_bytes(77) \o <<255>>
          \o u16_to_le_bytes(110)
          \o u16_to_le_bytes(Len(message) % 65536) \o <<255>>
          \o signature \o pubkey \o message)

\* CandidateMatches without the comparison of the pubkey
CandidateMatches_nopubkey(ix, expected_pubkey, expected_message, expected_signature) ==
  IF ix.program_id # SECP256R1_PROGRAM_ID THEN FALSE
  ELSE IF Len(ix.data) < HEADER_LEN THEN FALSE
  ELSE LET p == try_from_slice(ix.data) IN
       IF ~p.ok THEN FALSE
       ELSE LET sig == extract_signature(p.val, ix.data)
                pk == extract_pubkey(p.val, ix.data)
                msg_data == extract_message(p.val, ix.data)
            IN IF ~(sig.ok /\ pk.ok /\ msg_data.ok) THEN FALSE
               ELSE IF Len(sig.val) # SIGNATURE_LEN \/ sig.val # expected_signature THEN FALSE
               ELSE IF msg_data.val # expected_message THEN FALSE
               ELSE TRUE

\* One candidate of the scan in verify_secp256r1_signature: TRUE iff the
\* instruction is addressed to the verifier, parses, and its three fields
\* are byte-equal to the expected ones.
CandidateMatches(ix, expected_pubkey, expected_message, expected_signature) ==
  IF ix.program_id # SECP256R1_PROGRAM_ID THEN FALSE
  ELSE IF Len(ix.data) < HEADER_LEN THEN FALSE
  ELSE LET p == try_from_slice(ix.data) IN
       IF ~p.ok THEN FALSE
       ELSE LET sig == extract_signature(p.val, ix.data)
                pk == extract_pubkey(p.val, ix.data)
                msg_data == extract_message(p.val, ix.data)
            IN IF ~(sig.ok /\ pk.ok /\ msg_data.ok) THEN FALSE
               ELSE IF Len(pk.val) # PUBKEY_LEN \/ pk.val # expected_pubkey THEN FALSE
               ELSE IF Len(sig.val) # SIGNATURE_LEN \/ sig.val # expected_signature THEN FALSE
               ELSE IF msg_data.val # expected_message THEN FALSE
               ELSE TRUE

\* the loop with `break` in place of `continue` for a verifier candidate
\* that does not match
RECURSIVE ScanBack_abort(_, _, _, _, _)
ScanBack_abort(ixs, i, expected_pubkey, expected_message, expected_signature) ==
  IF i < 0 THEN FALSE
  ELSE IF CandidateMatches(ixs[i + 1], expected_pubkey, expected_message, expected_signature)
       THEN TRUE
       ELSE IF ixs[i + 1].program_id = SECP256R1_PROGRAM_ID THEN FALSE
       ELSE ScanBack_abort(ixs, i - 1, expected_pubkey, expected_message, expected_signature)

\* the loop `for i in (0..current_idx).rev()`; i is the 0-based index
RECURSIVE ScanBack(_, _, _, _, _)
ScanBack(ixs, i, expected_pubkey, expected_message, expected_signature) ==
  IF i < 0 THEN FALSE
  ELSE IF CandidateMatches(ixs[i + 1], expected_pubkey, expected_message, expected_signature)
       THEN TRUE
       ELSE ScanBack(ixs, i - 1, expected_pubkey, expected_message, expected_signature)

\* verify_secp256r1_signature scanning the whole batch
verify_secp256r1_signature_whole(ixs, current_idx, expected_pubkey, expected_message, expected_signature) ==
  IF ScanBack(ixs, Len(ixs) - 1, expected_pubkey, expected_message, expected_signature)
  THEN Ok(<<>>)
  ELSE Err("SignatureVerificationFailed")

\* verify_secp256r1_signature; ixs is the instructions sysvar (the batch),
\* current_idx the 0-based index of the executing instruction
verify_secp256r1_signature(ixs, current_idx, expected_pubkey, expected_message, expected_signature) ==
  IF ScanBack(ixs, current_idx - 1, expected_pubkey, expected_message, expected_signature)
  THEN Ok(<<>>)
  ELSE Err("SignatureVerificationFailed")

(***************************************************************************)
(* lib.rs : Action and its Borsh encoding; execute.rs : build_message      *)
(***************************************************************************)
Send(to, lamports) == [kind |-> "Send", to |-> to, lamports |-> lamports, threshold |-> 0]
SetThreshold(threshold) == [kind |-> "SetThreshold", to |-> <<>>, lamports |-> 0, threshold |-> threshold]

\* Action::try_to_vec (derive(AnchorSerialize)): variant tag, then the fields
try_to_vec(action) ==
  IF action.kind = "Send"
  THEN <<0>> \o action.to \o u64_to_le_bytes(action.lamports)
  ELSE <<1, action.threshold % 256>>

\* build_message without the nonce
build_message_nononce(action, nonce) == try_to_vec(action)

\* build_message
build_message(action, nonce) == try_to_vec(action) \o u64_to_le_bytes(nonce)

(***************************************************************************)
(* execute.rs : the WebAuthn challenge check.  Text is a sequence of       *)
(* ASCII codes.                                                            *)
(***************************************************************************)
\* the value of one base64url character, -1 for a character outside the
\* alphabet ('=' is handled by the caller)
B64Val(c) ==
  IF c >= 65 /\ c <= 90 THEN c - 65
  ELSE IF c >= 97 /\ c <= 122 THEN c - 97 + 26
  ELSE IF c >= 48 /\ c <= 57 THEN c - 48 + 52
  ELSE IF c = 45 THEN 62
  ELSE IF c = 95 THEN 63
  ELSE -1

Pow2(n) == IF n = 0 THEN 1 ELSE IF n = 1 THEN 2 ELSE IF n = 2 THEN 4
           ELSE IF n = 3 THEN 8 ELSE IF n = 4 THEN 16 ELSE IF n = 5 THEN 32
           ELSE IF n = 6 THEN 64 ELSE 128

\* '=' => continue
is_padding(c) == c = 61
not_padding(c) == ~is_padding(c)

\* the loop of base64url_decode over the characters of `input`.  Padding is
\* skipped and a character outside the alphabet ends the loop with Err.
\* Otherwise every character shifts 6 bits into `buffer`; whenever 8 bits or
\* more are held the top 8 are pushed and masked off, so with n characters
\* consumed the output holds (6 * n) \div 8 bytes, and byte k (from 0) is
\* made of bits 8k .. 8k+7 of the 6-bit values laid end to end: they lie in
\* the characters q = 8k \div 6 and q + 1, and the push that emits them
\* shifts the buffer right by 4 - (8k % 6).
b64_loop(input) ==
  LET chars == SelectSeq(input, not_padding)
      n == Len(chars)
  IN IF \E i \in 1..n : B64Val(chars[i]) < 0 THEN Err("InvalidBase64")
     ELSE Ok([k \in 1..((6 * n) \div 8) |->
               LET q == (8 * (k - 1)) \div 6
                   bits_collected == 4 - ((8 * (k - 1)) % 6)
                   buffer == B64Val(chars[q + 1]) * 64 + B64Val(chars[q + 2])
               IN (buffer \div Pow2(bits_collected)) % 256])

\* base64url_decode
base64url_decode(input) == b64_loop(input)

\* std::str::from_utf8 on the byte strings of the model: single-byte code
\* points are valid, a byte >= 0x80 standing alone is not
from_utf8_ok(bytes) == \A i \in 1..Len(bytes) : bytes[i] < 128

\* str::find: 0-based index of the first occurrence, -1 when absent
Find(s, pat) ==
  LET C == {i \in 0..(Len(s) - Len(pat)) : SubSeq(s, i + 1, i + Len(pat)) = pat}
  IN IF C = {} THEN -1 ELSE CHOOSE i \in C : \A j \in C : i <= j

\* "\"challenge\":\""
challenge_prefix == <<34, 99, 104, 97, 108, 108, 101, 110, 103, 101, 34, 58, 34>>

\* the challenge bytes that verify_webauthn_challenge decodes from the JSON
decode_challenge(client_data_json) ==
  IF ~from_utf8_ok(client_data_json) THEN ErrAt("InvalidWebAuthnData", 253)
  ELSE LET found == Find(client_data_json, challenge_prefix) IN
       IF found < 0 THEN ErrAt("InvalidWebAuthnData", 258)
       ELSE LET start == found + Len(challenge_prefix)
                rest == Slice(client_data_json, start, Len(client_data_json))
                end == Find(rest, <<34>>)
            IN IF end < 0 THEN ErrAt("InvalidWebAuthnData", 261)
               ELSE LET challenge == base64url_decode(Slice(client_data_json, start, start + end))
                    IN IF ~challenge.ok THEN ErrAt("InvalidWebAuthnData", 266)
                       ELSE [ok |-> TRUE, val |-> challenge.val, err |-> "none", line |-> 0]

\* verify_webauthn_challenge without the comparison with the expected hash
verify_webauthn_challenge_nocompare(client_data_json, expected_hash) ==
  LET challenge == decode_challenge(client_data_json) IN
  IF ~challenge.ok THEN challenge
  ELSE [ok |-> TRUE, val |-> <<>>, err |-> "none", line |-> 0]

\* verify_webauthn_challenge
verify_webauthn_challenge(client_data_json, expected_hash) ==
  LET challenge == decode_challenge(client_data_json) IN
  IF ~challenge.ok THEN challenge
  ELSE IF challenge.val # expected_hash THEN ErrAt("InvalidWebAuthnData", 270)
  ELSE [ok |-> TRUE, val |-> <<>>, err |-> "none", line |-> 0]

(***************************************************************************)
(* The values the model draws its inputs from                              *)
(***************************************************************************)
\* compressed public keys: parity prefix, then 32 bytes
Pk(prefix, b) == <<prefix>> \o Fill(32, b)
PubkeyList == <<Pk(2, 1), Pk(3, 2), Pk(2, 3), Pk(3, 4), Pk(2, 5), Pk(3, 6)>>
NumPubkeys == Len(PubkeyList)
\* a key whose first byte is neither 0x02 nor 0x03
BadPubkey == Pk(4, 7)
BadPk == NumPubkeys + 1
PubkeyOf(k) == IF k >= 1 /\ k <= NumPubkeys THEN PubkeyList[k] ELSE BadPubkey

\* device names: empty, "k1", 33 bytes
NameList == <<<<>>, <<107, 49>>, Fill(MAX_NAME_LEN + 1, 120)>>
\* credential ids: empty, 2 bytes, 257 bytes
CredList == <<<<>>, <<9, 9>>, Fill(MAX_CREDENTIAL_LEN + 1, 9)>>

Payers == {"owner", "other"}
\* recipient accounts and their addresses
Wallets == {"r1", "r2"}
WalletKey(r) == IF r = "r1" THEN Fill(32, 17) ELSE Fill(32, 18)

ActionList ==
  <<Send(WalletKey("r1"), 1), Send(WalletKey("r1"), 3), Send(WalletKey("r1"), 5),
    Send(WalletKey("r1"), 6), SetThreshold(0), SetThreshold(1), SetThreshold(2),
    SetThreshold(3)>>
NumActions == Len(ActionList)
Nonces == 0..MaxNonce

(***************************************************************************)
(* The external primitives, idealised: SHA-256 (solana_program::hash) as   *)
(* an injective map from the byte strings of the model to 32 bytes, and    *)
(* the secp256r1 precompile as accepting exactly the signature that the    *)
(* holder of the key produced over the message.                            *)
(***************************************************************************)
ActionMsgTable ==
  [a \in 1..NumActions |-> [n \in Nonces |-> build_message(ActionList[a], n)]]

Pad32(s) == IF Len(s) >= 32 THEN SubSeq(s, 1, 32) ELSE s \o Fill(32 - Len(s), 0)

\* digest of an input outside the tables
OtherDigest(m) == Pad32(<<0, Len(m) % 256>> \o m)

ActionMsgDigest(m) ==
  LET hits == {x \in (1..NumActions) \X Nonces : ActionMsgTable[x[1]][x[2]] = m}
  IN IF hits = {} THEN OtherDigest(m)
     ELSE LET x == CHOOSE y \in hits : TRUE IN Pad32(<<1, x[1], x[2]>>)

B64Char(v) ==
  IF v < 26 THEN 65 + v
  ELSE IF v < 52 THEN 97 + (v - 26)
  ELSE IF v < 62 THEN 48 + (v - 52)
  ELSE IF v = 62 THEN 45 ELSE 95

\* unpadded base64url, as the WebAuthn client writes the challenge
RECURSIVE base64url_encode(_)
base64url_encode(b) ==
  IF Len(b) = 0 THEN <<>>
  ELSE IF Len(b) = 1
       THEN <<B64Char(b[1] \div 4), B64Char((b[1] % 4) * 16)>>
  ELSE IF Len(b) = 2
       THEN <<B64Char(b[1] \div 4), B64Char((b[1] % 4) * 16 + b[2] \div 16),
              B64Char((b[2] % 16) * 4)>>
  ELSE <<B64Char(b[1] \div 4), B64Char((b[1] % 4) * 16 + b[2] \div 16),
         B64Char((b[2] % 16) * 4 + b[3] \div 64), B64Char(b[3] % 64)>>
       \o base64url_encode(SubSeq(b, 4, Len(b)))

\* {"type":"webauthn.get",
json_head == <<123, 34, 116, 121, 112, 101, 34, 58, 34, 119, 101, 98, 97, 117,
               116, 104, 110, 46, 103, 101, 116, 34, 44>>
\* clientDataJSON carrying the given challenge bytes
ClientDataJson(challenge) ==
  json_head \o challenge_prefix \o base64url_encode(challenge) \o <<34, 125>>
\* {"type":"webauthn.get"} : no challenge field
JsonNoChallenge == SubSeq(json_head, 1, Len(json_head) - 1) \o <<125>>

\* the clientDataJSON whose challenge is SHA-256(build_message(action a, nonce n))
ClientDataTable ==
  [a \in 1..NumActions |-> [n \in Nonces |-> ClientDataJson(ActionMsgDigest(ActionMsgTable[a][n]))]]

\* solana_program::hash::hash
hash(m) ==
  LET hits == {x \in (1..NumActions) \X Nonces : ClientDataTable[x[1]][x[2]] = m}
  IN IF hits # {} THEN LET x == CHOOSE y \in hits : TRUE IN Pad32(<<2, x[1], x[2]>>)
     ELSE IF m = JsonNoChallenge THEN Pad32(<<3>>)
     ELSE ActionMsgDigest(m)

\* authenticatorData: rpIdHash (32), flags (1), signCount (4)
AuthData == Fill(32, 170) \o <<5>> \o <<0, 0, 0, 1>>

\* the message WebAuthn signs: authenticatorData || SHA-256(clientDataJSON)
WebAuthnSigned(authenticator_data, client_data_json) ==
  authenticator_data \o hash(client_data_json)

PkIndex(pk) ==
  LET hits == {k \in 1..NumPubkeys : PubkeyList[k] = pk}
  IN IF hits = {} THEN 0 ELSE CHOOSE k \in hits : TRUE

SignedDigest(m) ==
  IF Len(m) = Len(AuthData) + 32 /\ SubSeq(m, 1, Len(AuthData)) = AuthData
  THEN <<4>> \o SubSeq(m, Len(AuthData) + 1, Len(AuthData) + 31)
  ELSE hash(m)

\* the 64-byte signature (r || s) of message m under the key pair of pk
Sign(pk, m) == Pad32(<<PkIndex(pk)>>) \o SignedDigest(m)

\* the check the precompile makes on one (pubkey, message, signature)
PrecompileVerifies(pk, m, sig) == PkIndex(pk) # 0 /\ sig = Sign(pk, m)

\* a verifier instruction in the documented layout: 2-byte header, seven
\* u16 fields, then pubkey, signature, message
verifier_instruction(pubkey, message, signature) ==
  Instruction(SECP256R1_PROGRAM_ID,
    <<1, 0>> \o u16_to_le_bytes(HEADER_LEN + PUBKEY_LEN) \o u16_to_le_bytes(SAME_IX)
             \o u16_to_le_bytes(HEADER_LEN) \o u16_to_le_bytes(SAME_IX)
             \o u16_to_le_bytes(HEADER_LEN + PUBKEY_LEN + SIGNATURE_LEN)
             \o u16_to_le_bytes(Len(message) % 65536) \o u16_to_le_bytes(SAME_IX)
             \o pubkey \o signature \o message)

(***************************************************************************)
(* State                                                                   *)
(***************************************************************************)
VARIABLES
  identities,  \* payer -> the Identity account derived from that payer
  vaults,      \* payer -> lamports of the vault of that identity
  wallets,     \* recipient account -> lamports
  registry,    \* the CredentialRegistry accounts that exist
  pending,     \* the call submitted and not yet processed
  last,        \* the call processed last: operation, outcome, threshold in force
  replay,      \* history: one accepted execute call and the nonce it was accepted at
  codec,       \* the verifier-payload round trip: inputs and results
  scan,        \* the oracle on one batch: the batch, the call's index, the results
  run,         \* an execute handler in progress: its position and the accounts it holds
  batch        \* an atomic batch in progress: its calls and the accounts as they see them

vars == <<identities, vaults, wallets, registry, pending, last, replay, codec, scan, run, batch>>
ledger == <<identities, vaults, wallets, registry>>

NoIdentity == [exists |-> FALSE, keys |-> <<>>, threshold |-> 0, nonce |-> 0]
RegisteredKey(pubkey, name) == [pubkey |-> pubkey, name |-> name]

(***************************************************************************)
(* execute.rs                                                              *)
(***************************************************************************)
\* result of a handler: outcome (with the source line of the failing check),
\* the Identity as the handler leaves it in memory, and the lamports moved
\* from the vault to the recipient
Done(identity, lamports) == [ok |-> TRUE, err |-> "none", line |-> 0, identity |-> identity, lamports |-> lamports]
Fail(e, line, identity) == [ok |-> FALSE, err |-> e, line |-> line, identity |-> identity, lamports |-> 0]

\* execute_action without the upper bound on the new threshold
execute_action_nocap(identity, vault_balance, recipient, action, cpi_ok) ==
  IF action.kind = "Send"
  THEN IF recipient = "none" THEN Fail("InvalidAccountData", 88, identity)
       ELSE IF WalletKey(recipient) # action.to THEN Fail("InvalidAccountData", 91, identity)
       ELSE IF ~(vault_balance >= action.lamports) THEN Fail("InsufficientFunds", 98, identity)
       ELSE LET min_balance == MinBalance
                remainder == IF vault_balance >= action.lamports
                             THEN vault_balance - action.lamports ELSE 0
            IN IF ~(remainder >= min_balance \/ action.lamports = vault_balance)
               THEN Fail("InsufficientFunds", 106, identity)
               ELSE IF ~cpi_ok THEN Fail("TransferFailed", 126, identity)
               ELSE Done(identity, action.lamports)
  ELSE IF ~(action.threshold > 0) THEN Fail("InvalidThreshold", 131, identity)
       ELSE Done([identity EXCEPT !.threshold = action.threshold], 0)

\* execute_action without the minimum-balance check on the remainder
execute_action_nofloor(identity, vault_balance, recipient, action, cpi_ok) ==
  IF action.kind = "Send"
  THEN IF recipient = "none" THEN Fail("InvalidAccountData", 88, identity)
       ELSE IF WalletKey(recipient) # action.to THEN Fail("InvalidAccountData", 91, identity)
       ELSE IF ~(vault_balance >= action.lamports) THEN Fail("InsufficientFunds", 98, identity)
       ELSE IF ~cpi_ok THEN Fail("TransferFailed", 126, identity)
            ELSE Done(identity, action.lamports)
  ELSE IF ~(action.threshold > 0) THEN Fail("InvalidThreshold", 131, identity)
       ELSE IF ~(action.threshold <= Len(identity.keys)) THEN Fail("InvalidThreshold", 134, identity)
       ELSE Done([identity EXCEPT !.threshold = action.threshold], 0)

\* execute_action whose Send also sets the threshold back to 1
execute_action_sendreset(identity, vault_balance, recipient, action, cpi_ok) ==
  IF action.kind = "Send"
  THEN IF recipient = "none" THEN Fail("InvalidAccountData", 88, identity)
       ELSE IF WalletKey(recipient) # action.to THEN Fail("InvalidAccountData", 91, identity)
       ELSE IF ~(vault_balance >= action.lamports) THEN Fail("InsufficientFunds", 98, identity)
       ELSE LET min_balance == MinBalance
                remainder == IF vault_balance >= action.lamports
                             THEN vault_balance - action.lamports ELSE 0
            IN IF ~(remainder >= min_balance \/ action.lamports = vault_balance)
               THEN Fail("InsufficientFunds", 106, identity)
               ELSE IF ~cpi_ok THEN Fail("TransferFailed", 126, identity)
               ELSE Done([identity EXCEPT !.threshold = 1], action.lamports)
  ELSE IF ~(action.threshold > 0) THEN Fail("InvalidThreshold", 131, identity)
       ELSE IF ~(action.threshold <= Len(identity.keys)) THEN Fail("InvalidThreshold", 134, identity)
       ELSE Done([identity EXCEPT !.threshold = action.threshold], 0)

\* the `match action` block of handler; recipient is "none" or a wallet,
\* cpi_ok the outcome of system_program::transfer
execute_action(identity, vault_balance, recipient, action, cpi_ok) ==
  IF action.kind = "Send"
  THEN IF recipient = "none" THEN Fail("InvalidAccountData", 88, identity)
       ELSE IF WalletKey(recipient) # action.to THEN Fail("InvalidAccountData", 91, identity)
       ELSE IF ~(vault_balance >= action.lamports) THEN Fail("InsufficientFunds", 98, identity)
       ELSE LET min_balance == MinBalance
                remainder == IF vault_balance >= action.lamports
                             THEN vault_balance - action.lamports ELSE 0
            IN IF ~(remainder >= min_balance \/ action.lamports = vault_balance)
               THEN Fail("InsufficientFunds", 106, identity)
               ELSE IF ~cpi_ok THEN Fail("TransferFailed", 126, identity)
               ELSE Done(identity, action.lamports)
  ELSE IF ~(action.threshold > 0) THEN Fail("InvalidThreshold", 131, identity)
       ELSE IF ~(action.threshold <= Len(identity.keys)) THEN Fail("InvalidThreshold", 134, identity)
       ELSE Done([identity EXCEPT !.threshold = action.threshold], 0)

\* the `match action` block of handler_webauthn
execute_action_webauthn(identity, vault_balance, recipient, action, cpi_ok) ==
  IF action.kind = "Send"
  THEN IF recipient = "none" THEN Fail("InvalidAccountData", 194, identity)
       ELSE IF WalletKey(recipient) # action.to THEN Fail("InvalidAccountData", 197, identity)
       ELSE IF ~(vault_balance >= action.lamports) THEN Fail("InsufficientFunds", 203, identity)
       ELSE LET min_balance == MinBalance
                remainder == IF vault_balance >= action.lamports
                             THEN vault_balance - action.lamports ELSE 0
            IN IF ~(remainder >= min_balance \/ action.lamports = vault_balance)
               THEN Fail("InsufficientFunds", 210, identity)
               ELSE IF ~cpi_ok THEN Fail("TransferFailed", 230, identity)
               ELSE Done(identity, action.lamports)
  ELSE IF ~(action.threshold > 0) THEN Fail("InvalidThreshold", 235, identity)
       ELSE IF ~(action.threshold <= Len(identity.keys)) THEN Fail("InvalidThreshold", 238, identity)
       ELSE Done([identity EXCEPT !.threshold = action.threshold], 0)

\* verify_each that gives no credit to a failing entry but goes on to the next
RECURSIVE verify_each_lenient(_, _, _, _, _, _)
verify_each_lenient(identity, sigs, i, message, ixs, current_idx) ==
  IF i > Len(sigs) THEN <<"none", 0>>
  ELSE IF ~(sigs[i].key_index < Len(identity.keys)) THEN <<"InvalidKeyIndex", 70>>
  ELSE verify_each_lenient(identity, sigs, i + 1, message, ixs, current_idx)

\* the loop `for sig in &sigs` that resolves the key and calls the oracle;
\* the error and line of the first failing entry, "none" when every entry passes
RECURSIVE verify_each(_, _, _, _, _, _)
verify_each(identity, sigs, i, message, ixs, current_idx) ==
  IF i > Len(sigs) THEN <<"none", 0>>
  ELSE IF ~(sigs[i].key_index < Len(identity.keys)) THEN <<"InvalidKeyIndex", 70>>
  ELSE IF ~verify_secp256r1_signature(ixs, current_idx,
             identity.keys[sigs[i].key_index + 1].pubkey, message, sigs[i].signature).ok
       THEN <<"SignatureVerificationFailed", 72>>
  ELSE verify_each(identity, sigs, i + 1, message, ixs, current_idx)

\* the loop over used_keys: some key_index occurs twice
duplicate_key_index(sigs) ==
  \E i, j \in 1..Len(sigs) : i < j /\ sigs[i].key_index = sigs[j].key_index

\* handler_execute without the comparison of the bundle size with the threshold
handler_execute_noquorum(identity, vault_balance, recipient, action, sigs, ixs, current_idx, cpi_ok) ==
  IF Len(sigs) = 0 THEN Fail("ThresholdNotMet", 43, identity)
  ELSE IF duplicate_key_index(sigs) THEN Fail("SignatureVerificationFailed", 57, identity)
  ELSE LET message == build_message(action, identity.nonce)
           e == verify_each(identity, sigs, 1, message, ixs, current_idx)
       IN IF e[1] # "none" THEN Fail(e[1], e[2], identity)
          ELSE execute_action([identity EXCEPT !.nonce = identity.nonce + 1],
                              vault_balance, recipient, action, cpi_ok)

\* handler_execute without the duplicate key_index check
handler_execute_nodup(identity, vault_balance, recipient, action, sigs, ixs, current_idx, cpi_ok) ==
  IF Len(sigs) = 0 THEN Fail("ThresholdNotMet", 43, identity)
  ELSE IF ~(Len(sigs) >= identity.threshold) THEN Fail("ThresholdNotMet", 49, identity)
  ELSE LET message == build_message(action, identity.nonce)
           e == verify_each(identity, sigs, 1, message, ixs, current_idx)
       IN IF e[1] # "none" THEN Fail(e[1], e[2], identity)
          ELSE execute_action([identity EXCEPT !.nonce = identity.nonce + 1],
                              vault_balance, recipient, action, cpi_ok)

\* handler_execute without the nonce increment
handler_execute_nobump(identity, vault_balance, recipient, action, sigs, ixs, current_idx, cpi_ok) ==
  IF Len(sigs) = 0 THEN Fail("ThresholdNotMet", 43, identity)
  ELSE IF ~(Len(sigs) >= identity.threshold) THEN Fail("ThresholdNotMet", 49, identity)
  ELSE IF duplicate_key_index(sigs) THEN Fail("SignatureVerificationFailed", 57, identity)
  ELSE LET message == build_message(action, identity.nonce)
           e == verify_each(identity, sigs, 1, message, ixs, current_idx)
       IN IF e[1] # "none" THEN Fail(e[1], e[2], identity)
          ELSE execute_action(identity, vault_balance, recipient, action, cpi_ok)

\* handler (execute)
handler_execute(identity, vault_balance, recipient, action, sigs, ixs, current_idx, cpi_ok) ==
  IF Len(sigs) = 0 THEN Fail("ThresholdNotMet", 43, identity)
  ELSE IF ~(Len(sigs) >= identity.threshold) THEN Fail("ThresholdNotMet", 49, identity)
  ELSE IF duplicate_key_index(sigs) THEN Fail("SignatureVerificationFailed", 57, identity)
  ELSE LET message == build_message(action, identity.nonce)
           e == verify_each(identity, sigs, 1, message, ixs, current_idx)
       IN IF e[1] # "none" THEN Fail(e[1], e[2], identity)
          ELSE execute_action([identity EXCEPT !.nonce = identity.nonce + 1],
                              vault_balance, recipient, action, cpi_ok)

\* handler_webauthn without the nonce increment
handler_webauthn_nobump(identity, vault_balance, recipient, action, webauthn_sig, ixs, current_idx, cpi_ok) ==
  LET expected_message == build_message(action, identity.nonce)
      expected_challenge == hash(expected_message)
      checked == verify_webauthn_challenge(webauthn_sig.client_data_json, expected_challenge)
  IN IF ~checked.ok
     THEN Fail("InvalidWebAuthnData", checked.line, identity)
     ELSE IF ~(webauthn_sig.key_index < Len(identity.keys)) THEN Fail("InvalidKeyIndex", 171, identity)
     ELSE LET key == identity.keys[webauthn_sig.key_index + 1]
              signed_message == webauthn_sig.authenticator_data \o hash(webauthn_sig.client_data_json)
          IN IF ~verify_secp256r1_signature(ixs, current_idx, key.pubkey, signed_message,
                                            webauthn_sig.signature).ok
             THEN Fail("SignatureVerificationFailed", 179, identity)
             ELSE execute_action_webauthn(identity,
                                 vault_balance, recipient, action, cpi_ok)

\* handler_webauthn
handler_webauthn(identity, vault_balance, recipient, action, webauthn_sig, ixs, current_idx, cpi_ok) ==
  LET expected_message == build_message(action, identity.nonce)
      expected_challenge == hash(expected_message)
      checked == verify_webauthn_challenge(webauthn_sig.client_data_json, expected_challenge)
  IN IF ~checked.ok
     THEN Fail("InvalidWebAuthnData", checked.line, identity)
     ELSE IF ~(webauthn_sig.key_index < Len(identity.keys)) THEN Fail("InvalidKeyIndex", 171, identity)
     ELSE LET key == identity.keys[webauthn_sig.key_index + 1]
              signed_message == webauthn_sig.authenticator_data \o hash(webauthn_sig.client_data_json)
          IN IF ~verify_secp256r1_signature(ixs, current_idx, key.pubkey, signed_message,
                                            webauthn_sig.signature).ok
             THEN Fail("SignatureVerificationFailed", 179, identity)
             ELSE execute_action_webauthn([identity EXCEPT !.nonce = identity.nonce + 1],
                                 vault_balance, recipient, action, cpi_ok)

\* handler, lines 43-78: the checks of the bundle and the loop over the
\* oracle; the error and line of the first failing check, "none" when all pass
handler_execute_validate(identity, action, sigs, ixs, current_idx) ==
  IF Len(sigs) = 0 THEN <<"ThresholdNotMet", 43>>
  ELSE IF ~(Len(sigs) >= identity.threshold) THEN <<"ThresholdNotMet", 49>>
  ELSE IF duplicate_key_index(sigs) THEN <<"SignatureVerificationFailed", 57>>
  ELSE verify_each(identity, sigs, 1, build_message(action, identity.nonce), ixs, current_idx)

\* handler_webauthn, lines 162-184: challenge, key lookup, oracle
handler_webauthn_validate(identity, action, webauthn_sig, ixs, current_idx) ==
  LET expected_message == build_message(action, identity.nonce)
      expected_challenge == hash(expected_message)
      checked == verify_webauthn_challenge(webauthn_sig.client_data_json, expected_challenge)
  IN IF ~checked.ok THEN <<"InvalidWebAuthnData", checked.line>>
     ELSE IF ~(webauthn_sig.key_index < Len(identity.keys)) THEN <<"InvalidKeyIndex", 171>>
     ELSE LET key == identity.keys[webauthn_sig.key_index + 1]
              signed_message == webauthn_sig.authenticator_data \o hash(webauthn_sig.client_data_json)
          IN IF ~verify_secp256r1_signature(ixs, current_idx, key.pubkey, signed_message,
                                            webauthn_sig.signature).ok
             THEN <<"SignatureVerificationFailed", 179>>
             ELSE <<"none", 0>>

\* the statement order of handler and handler_webauthn with the position
\* of the action block and of the nonce increment exchanged
next_pc_applyfirst(pc) ==
  CASE pc = "validate" -> "apply"
    [] pc = "apply" -> "bump"
    [] pc = "bump" -> "return"
    [] OTHER -> "idle"

\* the statement order of handler (43-78, 81, 84-139, 141) and of
\* handler_webauthn (162-184, 187, 190-243, 245)
next_pc(pc) ==
  CASE pc = "validate" -> "bump"
    [] pc = "bump" -> "apply"
    [] pc = "apply" -> "return"
    [] OTHER -> "idle"

(***************************************************************************)
(* create.rs, add_key.rs, register_credential.rs                           *)
(***************************************************************************)
ValidPrefix(pubkey) == pubkey[1] = 2 \/ pubkey[1] = 3

\* handler (create_identity); identity is the freshly allocated account
handler_create(identity, pubkey, device_name) ==
  IF ~(Len(device_name) <= MAX_NAME_LEN /\ Len(device_name) # 0)
  THEN Fail("InvalidDeviceName", 38, identity)
  ELSE IF ~ValidPrefix(pubkey) THEN Fail("InvalidPublicKeyFormat", 44, identity)
  ELSE Done([exists |-> TRUE, threshold |-> 1, nonce |-> 0,
             keys |-> <<RegisteredKey(pubkey, device_name)>>], 0)

\* handler_add_key that puts the new key in front of the list
handler_add_key_front(identity, new_pubkey, device_name) ==
  IF ~(Len(device_name) <= MAX_NAME_LEN) THEN Fail("InvalidArgument", 27, identity)
  ELSE IF Len(device_name) = 0 THEN Fail("InvalidArgument", 32, identity)
  ELSE IF ~ValidPrefix(new_pubkey) THEN Fail("InvalidPublicKey", 38, identity)
  ELSE IF ~(Len(identity.keys) < MAX_KEYS) THEN Fail("MaxKeysReached", 43, identity)
  ELSE IF \E i \in 1..Len(identity.keys) : identity.keys[i].pubkey = new_pubkey
       THEN Fail("DuplicateKey", 50, identity)
  ELSE Done([identity EXCEPT !.keys = <<RegisteredKey(new_pubkey, device_name)>> \o identity.keys], 0)

\* handler_add_key without the check of the key count
handler_add_key_nocap(identity, new_pubkey, device_name) ==
  IF ~(Len(device_name) <= MAX_NAME_LEN) THEN Fail("InvalidArgument", 27, identity)
  ELSE IF Len(device_name) = 0 THEN Fail("InvalidArgument", 32, identity)
  ELSE IF ~ValidPrefix(new_pubkey) THEN Fail("InvalidPublicKey", 38, identity)
  ELSE IF \E i \in 1..Len(identity.keys) : identity.keys[i].pubkey = new_pubkey
       THEN Fail("DuplicateKey", 50, identity)
  ELSE Done([identity EXCEPT !.keys = Append(identity.keys, RegisteredKey(new_pubkey, device_name))], 0)

\* handler_add_key without the search for an equal key
handler_add_key_nodup(identity, new_pubkey, device_name) ==
  IF ~(Len(device_name) <= MAX_NAME_LEN) THEN Fail("InvalidArgument", 27, identity)
  ELSE IF Len(device_name) = 0 THEN Fail("InvalidArgument", 32, identity)
  ELSE IF ~ValidPrefix(new_pubkey) THEN Fail("InvalidPublicKey", 38, identity)
  ELSE IF ~(Len(identity.keys) < MAX_KEYS) THEN Fail("MaxKeysReached", 43, identity)
  ELSE Done([identity EXCEPT !.keys = Append(identity.keys, RegisteredKey(new_pubkey, device_name))], 0)

\* handler (add_key)
handler_add_key(identity, new_pubkey, device_name) ==
  IF ~(Len(device_name) <= MAX_NAME_LEN) THEN Fail("InvalidArgument", 27, identity)
  ELSE IF Len(device_name) = 0 THEN Fail("InvalidArgument", 32, identity)
  ELSE IF ~ValidPrefix(new_pubkey) THEN Fail("InvalidPublicKey", 38, identity)
  ELSE IF ~(Len(identity.keys) < MAX_KEYS) THEN Fail("MaxKeysReached", 43, identity)
  ELSE IF \E i \in 1..Len(identity.keys) : identity.keys[i].pubkey = new_pubkey
       THEN Fail("DuplicateKey", 50, identity)
  ELSE Done([identity EXCEPT !.keys = Append(identity.keys, RegisteredKey(new_pubkey, device_name))], 0)

\* the seed byte of the credential_registry account: identity.keys.len() as u8
credential_seed(identity) == Len(identity.keys) % 256

RegFail(e, line) == [ok |-> FALSE, err |-> e, line |-> line, entry |-> <<>>]

\* handler (register_credential): the CredentialRegistry record it fills in
handler_register(owner, identity, credential_id, device_name) ==
  IF ~(Len(credential_id) <= MAX_CREDENTIAL_LEN) THEN RegFail("InvalidArgument", 38)
  ELSE IF Len(credential_id) = 0 THEN RegFail("InvalidArgument", 43)
  ELSE IF ~(Len(device_name) <= MAX_NAME_LEN /\ Len(device_name) # 0)
       THEN RegFail("InvalidArgument", 48)
  ELSE [ok |-> TRUE, err |-> "none", line |-> 0, entry |->
          [identity |-> owner, seed |-> credential_seed(identity),
           key_index |-> (Len(identity.keys) - 1) % 256,
           credential_id |-> credential_id, device_name |-> device_name]]

(***************************************************************************)
(* Calls.  A call is described by what the client chose (operation,        *)
(* accounts, arguments, who signed which nonce, which verifier             *)
(* instructions it put in the batch); the bytes the program receives are   *)
(* derived from the description.                                           *)
(***************************************************************************)
NoWa == [key_index |-> 0, ch_action |-> 0, ch_nonce |-> 0, json |-> "none", verifier |-> "none"]
NoTx == [op |-> "none", signer |-> "owner", target |-> "owner", pk |-> 0, name |-> 0,
         cred |-> 0, action |-> 0, recipient |-> "none", cpi_ok |-> TRUE,
         sigs |-> <<>>, signed_nonce |-> 0, wa |-> NoWa, mark |-> FALSE, note |-> FALSE,
         made_for |-> "owner"]
\* a marked call is remembered in `replay` when it is accepted
Marked(tx) == [tx EXCEPT !.mark = TRUE]
\* of a noted call `last` keeps how many keys of its bundle were matched
Noted(tx) == [tx EXCEPT !.note = TRUE]
\* the Identity the signers of an execute call meant; nothing the program
\* receives depends on it
MadeFor(tx, p) == [tx EXCEPT !.made_for = p]
NoReplay == [set |-> FALSE, tx |-> NoTx, nonce |-> 0, resubmitted |-> FALSE]
NoCall == [op |-> "none", ok |-> FALSE, err |-> "none", line |-> 0, threshold |-> 0, matched |-> 0]

TxCreate(signer, pk, name) ==
  [NoTx EXCEPT !.op = "create_identity", !.signer = signer, !.target = signer,
               !.pk = pk, !.name = name]
TxAddKey(signer, target, pk, name) ==
  [NoTx EXCEPT !.op = "add_key", !.signer = signer, !.target = target, !.pk = pk, !.name = name]
TxRegister(signer, target, cred, name) ==
  [NoTx EXCEPT !.op = "register_credential", !.signer = signer, !.target = target,
               !.cred = cred, !.name = name]
TxExecute(target, action, recipient, cpi_ok, sigs, signed_nonce) ==
  [NoTx EXCEPT !.op = "execute", !.target = target, !.action = action,
               !.recipient = recipient, !.cpi_ok = cpi_ok, !.sigs = sigs,
               !.signed_nonce = signed_nonce]
TxWebauthn(target, action, recipient, cpi_ok, wa) ==
  [NoTx EXCEPT !.op = "execute_webauthn", !.target = target, !.action = action,
               !.recipient = recipient, !.cpi_ok = cpi_ok, !.wa = wa]

\* one entry of a raw bundle: the key index it names and whether the
\* client put the verifier instruction for it in the batch
Entry(key_index, kind) == [key_index |-> key_index, kind |-> kind]
\* the key pair that signs for a key index: keys are registered in the
\* order of PubkeyList
SignerKey(key_index) == PubkeyOf(key_index + 1)

\* the message the signers of a raw call signed
SignedMessage(tx) == ActionMsgTable[tx.action][tx.signed_nonce]

\* Vec<SignatureData> of a raw call
BundleOf(tx) ==
  [i \in 1..Len(tx.sigs) |->
     [key_index |-> tx.sigs[i].key_index,
      signature |-> Sign(SignerKey(tx.sigs[i].key_index), SignedMessage(tx)),
      recovery_id |-> 0]]

IsVerified(e) == e.kind = "ok"
ExecuteIx == Instruction(KEYSTORE_PROGRAM_ID, <<>>)

\* WebAuthnSignatureData of a WebAuthn call
ClientDataOf(tx) ==
  IF tx.wa.json = "std" THEN ClientDataTable[tx.wa.ch_action][tx.wa.ch_nonce]
  ELSE JsonNoChallenge
WebauthnSigOf(tx) ==
  [key_index |-> tx.wa.key_index,
   signature |-> Sign(SignerKey(tx.wa.key_index), WebAuthnSigned(AuthData, ClientDataOf(tx))),
   authenticator_data |-> AuthData,
   client_data_json |-> ClientDataOf(tx)]

\* the batch: the verifier instructions, then the call itself
InstructionsOf(tx) ==
  IF tx.op = "execute"
  THEN LET v == SelectSeq(tx.sigs, IsVerified)
       IN [i \in 1..Len(v) |->
             verifier_instruction(SignerKey(v[i].key_index), SignedMessage(tx),
                                  Sign(SignerKey(v[i].key_index), SignedMessage(tx)))]
          \o <<ExecuteIx>>
  ELSE IF tx.op = "execute_webauthn"
  THEN (IF tx.wa.verifier = "ok"
        THEN <<verifier_instruction(SignerKey(tx.wa.key_index),
                                    WebAuthnSigned(AuthData, ClientDataOf(tx)),
                                    WebauthnSigOf(tx).signature)>>
        ELSE <<>>) \o <<ExecuteIx>>
  ELSE <<>>

\* 0-based position of the call in its batch
CurrentIdxOf(tx) == Len(InstructionsOf(tx)) - 1

\* the host runs the precompile on every instruction addressed to it and
\* drops the batch when one fails; such a batch never reaches the program
precompile_accepts(ix) ==
  LET p == try_from_slice(ix.data) IN
  /\ p.ok
  /\ extract_pubkey(p.val, ix.data).ok
  /\ extract_message(p.val, ix.data).ok
  /\ extract_signature(p.val, ix.data).ok
  /\ PrecompileVerifies(extract_pubkey(p.val, ix.data).val,
                        extract_message(p.val, ix.data).val,
                        extract_signature(p.val, ix.data).val)
BatchVerifies(ixs) ==
  \A i \in 1..Len(ixs) :
    ixs[i].program_id = SECP256R1_PROGRAM_ID => precompile_accepts(ixs[i])

(***************************************************************************)
(* The calls the model submits                                             *)
(***************************************************************************)
Entries == {Entry(k, kind) : k \in {0, 1, 2}, kind \in {"ok", "nover"}}
AuthBundles ==
  {<<>>} \cup {<<e>> : e \in Entries} \cup {<<e1, e2>> : e1 \in Entries, e2 \in Entries}
  \cup {<<Entry(0, "ok"), Entry(1, "ok"), Entry(2, "ok")>>}
HonestBundles == {<<Entry(0, "ok")>>, <<Entry(0, "ok"), Entry(1, "ok")>>}
\* one bundle and more for each way the handler refuses a bundle: empty, below
\* the threshold, a repeated index, an index out of range, an entry without
\* its verifier instruction before or after a matched one
EdgeBundles ==
  {<<>>} \cup {<<e>> : e \in Entries} \cup {<<Entry(0, "ok"), e>> : e \in Entries}
  \cup {<<Entry(0, "nover"), Entry(1, "ok")>>}
  \cup {<<Entry(0, "ok"), Entry(1, "ok"), Entry(2, "ok")>>}

LedgerCalls ==
  {TxCreate("owner", pk, name) : pk \in {1, BadPk}, name \in {1, 2, 3}}
  \cup {TxAddKey("owner", "owner", pk, 2) : pk \in 1..BadPk}
  \cup {TxAddKey("owner", "owner", pk, name) : pk \in 2..NumPubkeys, name \in {1, 3}}
  \cup {TxAddKey("other", "owner", pk, 2) : pk \in 2..NumPubkeys}
  \cup {TxRegister("owner", "owner", cred, 2) : cred \in {1, 2, 3}}
  \cup {TxRegister("owner", "owner", 2, name) : name \in {1, 3}}
  \cup {TxRegister("other", "owner", 2, 2)}

RawCalls ==
  {TxExecute("owner", 7, "none", TRUE, b, n) : b \in EdgeBundles, n \in Nonces}
  \cup {TxExecute("owner", a, "r1", TRUE, b, n) : a \in 1..NumActions, b \in HonestBundles, n \in Nonces}
  \cup {TxExecute("owner", 1, rc[1], rc[2], <<Entry(0, "ok")>>, n) :
          rc \in {<<"r2", TRUE>>, <<"none", TRUE>>, <<"r1", FALSE>>}, n \in Nonces}
  \cup {TxExecute("other", 7, "none", TRUE, <<Entry(0, "ok")>>, 0)}

Wa(key_index, ch_action, ch_nonce, json, verifier) ==
  [key_index |-> key_index, ch_action |-> ch_action, ch_nonce |-> ch_nonce,
   json |-> json, verifier |-> verifier]
WebauthnCalls ==
  {TxWebauthn("owner", a, "r1", TRUE, Wa(k, c, n, "std", v)) :
     a \in {1, 7}, c \in {1, 7}, n \in Nonces, k \in {0, 1}, v \in {"ok", "none"}}
  \cup {TxWebauthn("owner", a, "r1", TRUE, Wa(0, a, n, "std", "ok")) : a \in 1..NumActions, n \in Nonces}
  \cup {TxWebauthn("owner", 1, rc[1], rc[2], Wa(0, 1, n, "std", "ok")) :
          rc \in {<<"r2", TRUE>>, <<"none", TRUE>>, <<"r1", FALSE>>}, n \in Nonces}
  \cup {TxWebauthn("owner", 1, "r1", TRUE, Wa(0, 1, 0, "nochallenge", "ok"))}

TxPool == {tx \in LedgerCalls \cup RawCalls \cup WebauthnCalls : BatchVerifies(InstructionsOf(tx))}

\* what keeps the model finite: registered keys follow the order of
\* PubkeyList, executes stop at MaxNonce, registrations at MaxCreds
Submittable(tx) ==
  CASE tx.op = "add_key" ->
         tx.pk = BadPk \/ tx.pk <= Len(identities[tx.target].keys) + 1
    [] tx.op = "register_credential" -> Cardinality(registry) < MaxCreds
    [] tx.op \in {"execute", "execute_webauthn"} -> identities[tx.target].nonce < MaxNonce
    [] OTHER -> TRUE

\* entry i of the bundle names a registered key and the batch holds, before
\* the call, the verifier instruction over that key, the signature of the
\* entry and build_message(action, current nonce)
Matched(tx, i) ==
  LET id == identities[tx.target]
      e == BundleOf(tx)[i]
  IN /\ e.key_index < Len(id.keys)
     /\ \E j \in 1..CurrentIdxOf(tx) :
          InstructionsOf(tx)[j] =
            verifier_instruction(id.keys[e.key_index + 1].pubkey,
                                 build_message(ActionList[tx.action], id.nonce),
                                 e.signature)
ValidKeyIndices(tx) ==
  {tx.sigs[i].key_index : i \in {k \in 1..Len(tx.sigs) : Matched(tx, k)}}
DistinctKeyIndices(tx) ==
  \A i, j \in 1..Len(tx.sigs) : i # j => tx.sigs[i].key_index # tx.sigs[j].key_index

\* what is kept of a noted raw execute besides its outcome: the number of
\* distinct keys of its bundle that are matched
MatchedKeys(tx) ==
  IF tx.note /\ tx.op = "execute" /\ identities[tx.target].exists
  THEN Cardinality(ValidKeyIndices(tx)) ELSE 0

(***************************************************************************)
(* lib.rs : the entry points.  A handler that returns Err aborts the       *)
(* transaction and nothing it wrote is kept; on Ok the accounts are        *)
(* written back.                                                           *)
(***************************************************************************)
\* no batch in progress; otherwise the number of execute calls in the batch,
\* the call that runs next, how many have succeeded, and the accounts as the
\* calls of the batch have left them so far
NoBatch == [stage |-> "idle", calls |-> 0, k |-> 0, applied |-> 0,
            identity |-> NoIdentity, vault |-> 0, recipient |-> 0]
\* no handler in progress; otherwise the Identity, the vault lamports and the
\* recipient lamports as the handler holds them, and the nonce given to
\* build_message
NoRun == [pc |-> "idle", identity |-> NoIdentity, vault |-> 0, recipient |-> 0, nonce |-> 0]
NoScan == [stage |-> "idle", kinds |-> <<>>, current_idx |-> 0,
           ok |-> FALSE, err |-> "none", call_ok |-> FALSE, call_line |-> 0]
NoCodec == [stage |-> "idle", pubkey |-> <<>>, message |-> <<>>, signature |-> <<>>,
            data |-> <<>>, parsed |-> Err("none"), out_pubkey |-> Err("none"),
            out_message |-> Err("none"), out_signature |-> Err("none"),
            header |-> <<>>,
            header_parsed |-> [ok |-> FALSE, err |-> "none", val |-> NoParsed]]

Init ==
  /\ identities = [p \in Payers |-> NoIdentity]
  /\ vaults = [p \in Payers |-> VaultStart]
  /\ wallets = [w \in Wallets |-> 0]
  /\ registry = {}
  /\ pending = NoTx
  /\ last = NoCall
  /\ replay = NoReplay
  /\ codec = NoCodec
  /\ scan = NoScan
  /\ run = NoRun
  /\ batch = NoBatch

\* a client submits one call of the given pool
SubmitFrom(pool) ==
  /\ pending.op = "none"
  /\ \E tx \in pool :
       /\ Submittable(tx)
       /\ pending' = tx
  /\ last' = NoCall
  /\ UNCHANGED <<ledger, replay, codec, scan, run, batch>>

Submit == SubmitFrom(TxPool)

\* history: the first marked call that is accepted is remembered with the
\* nonce it was accepted at; a later processing of the same call is noted
Remember(tx, nonce, ok) ==
  IF ~replay.set
  THEN IF ok /\ tx.mark
       THEN [set |-> TRUE, tx |-> tx, nonce |-> nonce, resubmitted |-> FALSE]
       ELSE replay
  ELSE IF Marked(tx) = replay.tx THEN [replay EXCEPT !.resubmitted = TRUE]
  ELSE replay

\* Settle that keeps the Identity as the failed handler left it
Settle_partial(op, target, recipient, r) ==
  /\ IF r.ok
     THEN /\ identities' = [identities EXCEPT ![target] = r.identity]
          /\ vaults' = [vaults EXCEPT ![target] = @ - r.lamports]
          /\ wallets' = IF r.lamports > 0
                        THEN [wallets EXCEPT ![recipient] = @ + r.lamports]
                        ELSE wallets
     ELSE /\ identities' = [identities EXCEPT ![target] = r.identity]
          /\ UNCHANGED <<vaults, wallets>>
  /\ last' = [op |-> op, ok |-> r.ok, err |-> r.err, line |-> r.line,
               threshold |-> identities[target].threshold,
               matched |-> MatchedKeys(pending)]
  /\ replay' = Remember(pending, identities[target].nonce, r.ok)
  /\ pending' = NoTx

\* the end of a call on the Identity `target`: commit on Ok, abort on Err
Settle(op, target, recipient, r) ==
  /\ IF r.ok
     THEN /\ identities' = [identities EXCEPT ![target] = r.identity]
          /\ vaults' = [vaults EXCEPT ![target] = @ - r.lamports]
          /\ wallets' = IF r.lamports > 0
                        THEN [wallets EXCEPT ![recipient] = @ + r.lamports]
                        ELSE wallets
     ELSE UNCHANGED <<identities, vaults, wallets>>
  /\ last' = [op |-> op, ok |-> r.ok, err |-> r.err, line |-> r.line,
               threshold |-> identities[target].threshold,
               matched |-> MatchedKeys(pending)]
  /\ replay' = Remember(pending, identities[target].nonce, r.ok)
  /\ pending' = NoTx

\* create_identity: the account is allocated by `init`, which fails when
\* it exists already
CreateResult(tx) ==
  LET id == identities[tx.signer] IN
  IF id.exists THEN Fail("AccountAlreadyInUse", 10, id)
  ELSE handler_create(id, PubkeyOf(tx.pk), NameList[tx.name])

CreateIdentity ==
  /\ pending.op = "create_identity"
  /\ Settle("create_identity", pending.signer, "none", CreateResult(pending))
  /\ UNCHANGED <<registry, codec, scan, run, batch>>

\* AddKeyResult without the seeds constraint on the identity account
AddKeyResult_anysigner(tx) ==
  LET id == identities[tx.target] IN
  IF ~id.exists THEN Fail("AccountNotInitialized", 10, id)
  ELSE handler_add_key(id, PubkeyOf(tx.pk), NameList[tx.name])

\* add_key: the identity account must be the one derived from the signing
\* authority (seeds = [b"identity", authority])
AddKeyResult(tx) ==
  LET id == identities[tx.target] IN
  IF ~id.exists THEN Fail("AccountNotInitialized", 10, id)
  ELSE IF tx.target # tx.signer THEN Fail("ConstraintSeeds", 12, id)
  ELSE handler_add_key(id, PubkeyOf(tx.pk), NameList[tx.name])

AddKey ==
  /\ pending.op = "add_key"
  /\ Settle("add_key", pending.target, "none", AddKeyResult(pending))
  /\ UNCHANGED <<registry, codec, scan, run, batch>>

\* register_credential: same identity constraint; the registry account at
\* seeds [b"credential", identity, keys.len() as u8] is allocated by `init`
RegisterResult(tx) ==
  LET id == identities[tx.target] IN
  IF ~id.exists THEN RegFail("AccountNotInitialized", 10)
  ELSE IF tx.target # tx.signer THEN RegFail("ConstraintSeeds", 12)
  ELSE IF \E e \in registry : e.identity = tx.target /\ e.seed = credential_seed(id)
       THEN RegFail("AccountAlreadyInUse", 17)
  ELSE handler_register(tx.target, id, CredList[tx.cred], NameList[tx.name])

RegisterCredential ==
  /\ pending.op = "register_credential"
  /\ LET r == RegisterResult(pending) IN
       /\ registry' = IF r.ok THEN registry \cup {r.entry} ELSE registry
       /\ last' = [op |-> "register_credential", ok |-> r.ok, err |-> r.err, line |-> r.line,
                 threshold |-> identities[pending.target].threshold, matched |-> 0]
  /\ pending' = NoTx
  /\ UNCHANGED <<identities, vaults, wallets, replay, codec, scan, run, batch>>

\* execute
ExecuteResult(tx) ==
  LET id == identities[tx.target] IN
  IF ~id.exists THEN Fail("AccountNotInitialized", 13, id)
  ELSE handler_execute(id, vaults[tx.target], tx.recipient, ActionList[tx.action],
                       BundleOf(tx), InstructionsOf(tx), CurrentIdxOf(tx), tx.cpi_ok)

Execute ==
  /\ pending.op = "execute"
  /\ Settle("execute", pending.target, pending.recipient, ExecuteResult(pending))
  /\ UNCHANGED <<registry, codec, scan, run, batch>>

\* execute_webauthn
WebauthnResult(tx) ==
  LET id == identities[tx.target] IN
  IF ~id.exists THEN Fail("AccountNotInitialized", 13, id)
  ELSE handler_webauthn(id, vaults[tx.target], tx.recipient, ActionList[tx.action],
                        WebauthnSigOf(tx), InstructionsOf(tx), CurrentIdxOf(tx), tx.cpi_ok)

ExecuteWebauthn ==
  /\ pending.op = "execute_webauthn"
  /\ Settle("execute_webauthn", pending.target, pending.recipient, WebauthnResult(pending))
  /\ UNCHANGED <<registry, codec, scan, run, batch>>

Next ==
  \/ Submit
  \/ CreateIdentity
  \/ AddKey
  \/ RegisterCredential
  \/ Execute
  \/ ExecuteWebauthn

Spec == Init /\ [][Next]_vars

(***************************************************************************)
(* Replays: the same actions over a pool of execute calls that are         *)
(* remembered when accepted                                                *)
(***************************************************************************)
ReplayCalls ==
  {TxCreate("owner", 1, 2)}
  \cup {TxAddKey("owner", "owner", pk, 2) : pk \in 2..3}
  \cup {TxRegister("owner", "owner", 2, 2)}
  \cup {TxExecute("owner", a, "r1", TRUE, b, n) : a \in {1, 6, 7}, b \in HonestBundles, n \in Nonces}
  \cup {TxWebauthn("owner", a, "r1", TRUE, Wa(k, a, n, "std", "ok")) : a \in {1, 6, 7}, k \in {0, 1}, n \in Nonces}

ReplayPool ==
  LET calls == {tx \in ReplayCalls : BatchVerifies(InstructionsOf(tx))}
  IN calls \cup {Marked(tx) : tx \in {c \in calls : c.op \in {"execute", "execute_webauthn"}}}

SubmitReplay == SubmitFrom(ReplayPool)

NextReplay ==
  \/ SubmitReplay
  \/ CreateIdentity
  \/ AddKey
  \/ RegisterCredential
  \/ Execute
  \/ ExecuteWebauthn

SpecReplay == Init /\ [][NextReplay]_vars

(***************************************************************************)
(* Quorum: raw execute calls with every bundle of AuthBundles, noted, on   *)
(* an Identity of one to three keys                                        *)
(***************************************************************************)
QuorumCalls ==
  {TxCreate("owner", 1, 2)}
  \cup {TxAddKey("owner", "owner", pk, 2) : pk \in 2..3}
  \cup {Noted(TxExecute("owner", a, "r1", TRUE, b, n)) :
          a \in {1, 2, 3, 4, 7}, b \in AuthBundles, n \in Nonces}

QuorumPool == {tx \in QuorumCalls : BatchVerifies(InstructionsOf(tx))}

SubmitQuorum == SubmitFrom(QuorumPool)

NextQuorum ==
  \/ SubmitQuorum
  \/ CreateIdentity
  \/ AddKey
  \/ Execute

SpecQuorum == Init /\ [][NextQuorum]_vars

(***************************************************************************)
(* The verifier payload as a pure function: build, then parse and extract  *)
(***************************************************************************)
CodecMessages ==
  {<<>>, Fill(32, 0)} \cup {ActionMsgTable[a][n] : a \in 1..NumActions, n \in Nonces}

InitCodec ==
  /\ identities = [p \in Payers |-> NoIdentity]
  /\ vaults = [p \in Payers |-> VaultStart]
  /\ wallets = [w \in Wallets |-> 0]
  /\ registry = {}
  /\ pending = NoTx
  /\ last = NoCall
  /\ replay = NoReplay
  /\ scan = NoScan
  /\ run = NoRun
  /\ batch = NoBatch
  /\ \E k \in 1..BadPk, s \in 1..2, m \in CodecMessages :
       codec = [NoCodec EXCEPT !.stage = "input", !.pubkey = PubkeyOf(k),
                               !.message = m, !.signature = Sign(PubkeyOf(s), m)]

CodecBuild ==
  /\ codec.stage = "input"
  /\ codec' = [codec EXCEPT !.stage = "built",
                 !.data = build_secp256r1_instruction(codec.pubkey, codec.message,
                                                      codec.signature).data]
  /\ UNCHANGED <<ledger, pending, last, replay, scan, run, batch>>

CodecParse ==
  /\ codec.stage = "built"
  /\ LET p == try_from_slice(codec.data) IN
       codec' = [codec EXCEPT !.stage = "parsed",
                   !.parsed = [ok |-> p.ok, err |-> p.err],
                   !.out_pubkey = IF p.ok THEN extract_pubkey(p.val, codec.data) ELSE Err("NotParsed"),
                   !.out_message = IF p.ok THEN extract_message(p.val, codec.data) ELSE Err("NotParsed"),
                   !.out_signature = IF p.ok THEN extract_signature(p.val, codec.data) ELSE Err("NotParsed")]
  /\ UNCHANGED <<ledger, pending, last, replay, scan, run, batch>>

\* the offsets header of a built payload: what precedes signature, pubkey
\* and message (secp256r1.rs:296-303)
HeaderOf(data, message) ==
  SubSeq(data, 1, Len(data) - (SIGNATURE_LEN + PUBKEY_LEN + Len(message)))

\* tests::test_parse_instruction_data: try_from_slice on the header alone
CodecHeader ==
  /\ codec.stage = "built"
  /\ LET header == HeaderOf(codec.data, codec.message) IN
       codec' = [codec EXCEPT !.stage = "header",
                   !.header = header,
                   !.header_parsed = try_from_slice(header)]
  /\ UNCHANGED <<ledger, pending, last, replay, scan, run, batch>>

NextCodec == CodecBuild \/ CodecParse \/ CodecHeader

SpecCodec == InitCodec /\ [][NextCodec]_vars

(***************************************************************************)
(* The oracle as a function of the batch: a batch of verifier candidates   *)
(* of every kind around the call, the scan, then the raw handler on it     *)
(***************************************************************************)
\* the triple the oracle is asked for, and the Identity the call is made on
ExpectedPubkey == PubkeyList[1]
ExpectedMessage == ActionMsgTable[1][0]
ExpectedSignature == Sign(ExpectedPubkey, ExpectedMessage)
OracleIdentity ==
  [exists |-> TRUE, threshold |-> 1, nonce |-> 0,
   keys |-> <<RegisteredKey(ExpectedPubkey, NameList[2])>>]

\* byte i (from 1) of s changed
FlipByte(s, i) == [s EXCEPT ![i] = (@ + 1) % 256]
\* the payload of the verifier instruction over the expected triple
MatchData == verifier_instruction(ExpectedPubkey, ExpectedMessage, ExpectedSignature).data

\* the instructions a batch is made of
IxKinds ==
  {"match", "pubkey1", "sig1", "msg1", "short", "count2", "oob",
   "sigix", "pkix", "msgix", "other", "call"}
OracleIx(kind) ==
  CASE kind = "match" -> Instruction(SECP256R1_PROGRAM_ID, MatchData)
    \* a verifier instruction over a pubkey, signature or message that
    \* differs from the expected one in its last byte
    [] kind = "pubkey1" ->
         verifier_instruction(FlipByte(ExpectedPubkey, PUBKEY_LEN), ExpectedMessage, ExpectedSignature)
    [] kind = "sig1" ->
         verifier_instruction(ExpectedPubkey, ExpectedMessage, FlipByte(ExpectedSignature, SIGNATURE_LEN))
    [] kind = "msg1" ->
         verifier_instruction(ExpectedPubkey, FlipByte(ExpectedMessage, Len(ExpectedMessage)), ExpectedSignature)
    \* a payload of 15 bytes
    [] kind = "short" -> Instruction(SECP256R1_PROGRAM_ID, SubSeq(MatchData, 1, HEADER_LEN - 1))
    \* a signature count of 2
    [] kind = "count2" -> Instruction(SECP256R1_PROGRAM_ID, [MatchData EXCEPT ![1] = 2])
    \* a message size that reaches one byte past the payload
    [] kind = "oob" -> Instruction(SECP256R1_PROGRAM_ID, FlipByte(MatchData, 13))
    \* a source index other than 0xFFFF: 0 for the signature, 1 for the
    \* pubkey, 0xFFFE for the message
    [] kind = "sigix" -> Instruction(SECP256R1_PROGRAM_ID, [MatchData EXCEPT ![5] = 0, ![6] = 0])
    [] kind = "pkix" -> Instruction(SECP256R1_PROGRAM_ID, [MatchData EXCEPT ![9] = 1, ![10] = 0])
    [] kind = "msgix" -> Instruction(SECP256R1_PROGRAM_ID, [MatchData EXCEPT ![15] = 254, ![16] = 255])
    \* the matching payload addressed to another program
    [] kind = "other" -> Instruction("System", MatchData)
    [] OTHER -> ExecuteIx

\* the instructions sysvar of a batch
BatchOf(kinds) == [i \in 1..Len(kinds) |-> OracleIx(kinds[i])]

\* batches of 1..MaxBatch instructions; the instruction at current_idx is
\* the keystore call itself
Batches ==
  UNION {[1..n -> IxKinds] : n \in 1..MaxBatch}

InitOracle ==
  /\ identities = [p \in Payers |-> NoIdentity]
  /\ vaults = [p \in Payers |-> VaultStart]
  /\ wallets = [w \in Wallets |-> 0]
  /\ registry = {}
  /\ pending = NoTx
  /\ last = NoCall
  /\ replay = NoReplay
  /\ codec = NoCodec
  /\ run = NoRun
  /\ batch = NoBatch
  /\ \E kinds \in Batches, current_idx \in 0..(MaxBatch - 1) :
       /\ current_idx < Len(kinds)
       /\ kinds[current_idx + 1] = "call"
       /\ scan = [NoScan EXCEPT !.stage = "input", !.kinds = kinds, !.current_idx = current_idx]

\* verify_secp256r1_signature on the batch
OracleVerify ==
  /\ scan.stage = "input"
  /\ LET r == verify_secp256r1_signature(BatchOf(scan.kinds), scan.current_idx,
                ExpectedPubkey, ExpectedMessage, ExpectedSignature)
     IN scan' = [scan EXCEPT !.stage = "verified", !.ok = r.ok, !.err = r.err]
  /\ UNCHANGED <<ledger, pending, last, replay, codec, run, batch>>

\* the raw handler on the same batch, with a bundle of one entry for key 0
OracleExecute ==
  /\ scan.stage = "verified"
  /\ LET r == handler_execute(OracleIdentity, VaultStart, "r1", ActionList[1],
                <<[key_index |-> 0, signature |-> ExpectedSignature, recovery_id |-> 0]>>,
                BatchOf(scan.kinds), scan.current_idx, TRUE)
     IN scan' = [scan EXCEPT !.stage = "done", !.call_ok = r.ok, !.call_line = r.line]
  /\ UNCHANGED <<ledger, pending, last, replay, codec, run, batch>>

NextOracle == OracleVerify \/ OracleExecute

SpecOracle == InitOracle /\ [][NextOracle]_vars

(***************************************************************************)
(* The execute handlers statement by statement.  The handler works on the  *)
(* accounts of its context; an Err drops what it did, Ok(()) keeps it.     *)
(***************************************************************************)
StepCalls ==
  {TxCreate("owner", 1, 2)}
  \cup {TxAddKey("owner", "owner", 2, 2)}
  \cup {TxExecute(t, a, "r1", c, b, n) :
          t \in Payers, a \in {1, 4, 5, 7, 8}, c \in BOOLEAN,
          b \in {<<Entry(0, "ok")>>, <<Entry(0, "nover")>>, <<Entry(0, "ok"), Entry(1, "ok")>>,
                 <<Entry(0, "ok"), Entry(0, "ok")>>},
          n \in Nonces}
  \cup {TxWebauthn("owner", a, "r1", c, Wa(0, a, n, "std", v)) :
          a \in {1, 4, 5, 7, 8}, c \in BOOLEAN, n \in Nonces, v \in {"ok", "none"}}
StepPool == {tx \in StepCalls : BatchVerifies(InstructionsOf(tx))}
SubmitStep == SubmitFrom(StepPool)

\* the handler returns Err: the call ends and nothing it did is kept
StepAbort(err, line) ==
  /\ last' = [op |-> pending.op, ok |-> FALSE, err |-> err, line |-> line,
               threshold |-> identities[pending.target].threshold, matched |-> 0]
  /\ pending' = NoTx
  /\ run' = NoRun
  /\ UNCHANGED <<ledger, replay, codec, scan, batch>>

\* the accounts of the context are loaded (Execute, lines 11-33)
StepBegin ==
  /\ pending.op \in {"execute", "execute_webauthn"}
  /\ run.pc = "idle"
  /\ IF ~identities[pending.target].exists
     THEN StepAbort("AccountNotInitialized", 13)
     ELSE /\ run' = [pc |-> "validate",
                     identity |-> identities[pending.target],
                     vault |-> vaults[pending.target],
                     recipient |-> IF pending.recipient = "none" THEN 0
                                   ELSE wallets[pending.recipient],
                     nonce |-> 0]
          /\ UNCHANGED <<ledger, pending, last, replay, codec, scan, batch>>

\* lines 43-78 of handler, 162-184 of handler_webauthn
StepValidate ==
  /\ run.pc = "validate"
  /\ LET e == IF pending.op = "execute"
              THEN handler_execute_validate(run.identity, ActionList[pending.action],
                     BundleOf(pending), InstructionsOf(pending), CurrentIdxOf(pending))
              ELSE handler_webauthn_validate(run.identity, ActionList[pending.action],
                     WebauthnSigOf(pending), InstructionsOf(pending), CurrentIdxOf(pending))
     IN IF e[1] # "none" THEN StepAbort(e[1], e[2])
        ELSE /\ run' = [run EXCEPT !.pc = next_pc(run.pc), !.nonce = run.identity.nonce]
             /\ UNCHANGED <<ledger, pending, last, replay, codec, scan, batch>>

\* identity.nonce += 1 (line 81, line 187)
StepBump ==
  /\ run.pc = "bump"
  /\ run' = [run EXCEPT !.pc = next_pc(run.pc), !.identity.nonce = @ + 1]
  /\ UNCHANGED <<ledger, pending, last, replay, codec, scan, batch>>

\* the `match action` block (lines 84-139, lines 190-243)
StepApply ==
  /\ run.pc = "apply"
  /\ LET r == IF pending.op = "execute"
              THEN execute_action(run.identity, run.vault, pending.recipient,
                                  ActionList[pending.action], pending.cpi_ok)
              ELSE execute_action_webauthn(run.identity, run.vault, pending.recipient,
                                  ActionList[pending.action], pending.cpi_ok)
     IN IF ~r.ok THEN StepAbort(r.err, r.line)
        ELSE /\ run' = [run EXCEPT !.pc = next_pc(run.pc),
                                   !.identity = r.identity,
                                   !.vault = @ - r.lamports,
                                   !.recipient = @ + r.lamports]
             /\ UNCHANGED <<ledger, pending, last, replay, codec, scan, batch>>

\* Ok(()) (line 141, line 245): the accounts are written back
StepReturn ==
  /\ run.pc = "return"
  /\ identities' = [identities EXCEPT ![pending.target] = run.identity]
  /\ vaults' = [vaults EXCEPT ![pending.target] = run.vault]
  /\ wallets' = IF pending.recipient = "none" THEN wallets
                ELSE [wallets EXCEPT ![pending.recipient] = run.recipient]
  /\ last' = [op |-> pending.op, ok |-> TRUE, err |-> "none", line |-> 0,
               threshold |-> identities[pending.target].threshold, matched |-> 0]
  /\ pending' = NoTx
  /\ run' = NoRun
  /\ UNCHANGED <<registry, replay, codec, scan, batch>>

NextSteps ==
  \/ SubmitStep
  \/ CreateIdentity
  \/ AddKey
  \/ StepBegin
  \/ StepValidate
  \/ StepBump
  \/ StepApply
  \/ StepReturn

SpecSteps == Init /\ [][NextSteps]_vars

(***************************************************************************)
(* An atomic batch with several execute calls.  The batch holds the        *)
(* verifier instructions and then the same call one or more times; each    *)
(* call sees the accounts as the calls before it left them, and the first  *)
(* Err discards the whole batch.                                           *)
(***************************************************************************)
MaxCalls == 2

BatchCalls ==
  {TxCreate("owner", 1, 2)}
  \cup {TxAddKey("owner", "owner", 2, 2)}
  \cup {TxExecute(t, a, "r1", TRUE, b, n) :
          t \in Payers, a \in {1, 2, 6, 7},
          b \in {<<Entry(0, "ok")>>, <<Entry(0, "nover")>>, <<Entry(0, "ok"), Entry(1, "ok")>>},
          n \in Nonces}
  \cup {TxWebauthn("owner", a, "r1", TRUE, Wa(0, a, n, "std", v)) :
          a \in {1, 2, 6, 7}, n \in Nonces, v \in {"ok", "none"}}
BatchPool == {tx \in BatchCalls : BatchVerifies(InstructionsOf(tx))}
SubmitBatch == SubmitFrom(BatchPool)

\* the instructions of a batch with n copies of the call
BatchIxs(tx, n) == InstructionsOf(tx) \o [i \in 1..(n - 1) |-> ExecuteIx]

\* copy k of the call, run on the accounts as the batch has them
BatchCallResult(tx, k, n, identity, vault) ==
  IF tx.op = "execute"
  THEN handler_execute(identity, vault, tx.recipient, ActionList[tx.action],
                       BundleOf(tx), BatchIxs(tx, n), CurrentIdxOf(tx) + k - 1, tx.cpi_ok)
  ELSE handler_webauthn(identity, vault, tx.recipient, ActionList[tx.action],
                        WebauthnSigOf(tx), BatchIxs(tx, n), CurrentIdxOf(tx) + k - 1, tx.cpi_ok)

\* a call of the batch returns Err: the batch ends and nothing is kept
BatchAbort(err, line) ==
  /\ last' = [op |-> pending.op, ok |-> FALSE, err |-> err, line |-> line,
               threshold |-> identities[pending.target].threshold, matched |-> 0]
  /\ pending' = NoTx
  /\ batch' = [batch EXCEPT !.stage = "aborted"]
  /\ UNCHANGED <<ledger, replay, codec, scan, run>>

\* the batch starts: it holds 1..MaxCalls copies of the pending call
BatchBegin ==
  /\ pending.op \in {"execute", "execute_webauthn"}
  /\ batch.stage # "running"
  /\ \E n \in 1..MaxCalls :
       batch' = [stage |-> "running", calls |-> n, k |-> 1, applied |-> 0,
                 identity |-> identities[pending.target],
                 vault |-> vaults[pending.target],
                 recipient |-> wallets[pending.recipient]]
  /\ UNCHANGED <<ledger, pending, last, replay, codec, scan, run>>

\* the next call of the batch runs
BatchCall ==
  /\ batch.stage = "running"
  /\ batch.k <= batch.calls
  /\ IF ~batch.identity.exists THEN BatchAbort("AccountNotInitialized", 13)
     ELSE LET r == BatchCallResult(pending, batch.k, batch.calls, batch.identity, batch.vault)
          IN IF ~r.ok THEN BatchAbort(r.err, r.line)
             ELSE /\ batch' = [batch EXCEPT !.k = @ + 1, !.applied = @ + 1,
                                            !.identity = r.identity,
                                            !.vault = @ - r.lamports,
                                            !.recipient = @ + r.lamports]
                  /\ UNCHANGED <<ledger, pending, last, replay, codec, scan, run>>

\* every call of the batch returned Ok: the accounts are kept
BatchCommit ==
  /\ batch.stage = "running"
  /\ batch.k > batch.calls
  /\ identities' = [identities EXCEPT ![pending.target] = batch.identity]
  /\ vaults' = [vaults EXCEPT ![pending.target] = batch.vault]
  /\ wallets' = [wallets EXCEPT ![pending.recipient] = batch.recipient]
  /\ last' = [op |-> pending.op, ok |-> TRUE, err |-> "none", line |-> 0,
               threshold |-> identities[pending.target].threshold, matched |-> 0]
  /\ pending' = NoTx
  /\ batch' = [batch EXCEPT !.stage = "committed"]
  /\ UNCHANGED <<registry, replay, codec, scan, run>>

NextBatch ==
  \/ SubmitBatch
  \/ CreateIdentity
  \/ AddKey
  \/ BatchBegin
  \/ BatchCall
  \/ BatchCommit

SpecBatch == Init /\ [][NextBatch]_vars

(***************************************************************************)
(* Two Identities with the same first key: execute calls signed for one    *)
(* of them and sent to either                                              *)
(***************************************************************************)
CrossCalls ==
  {TxCreate(p, 1, 2) : p \in Payers}
  \cup {TxAddKey(p, p, 2, 2) : p \in Payers}
  \cup {MadeFor(TxExecute(t, a, "r1", TRUE, b, n), f) :
          t \in Payers, f \in Payers, a \in {1, 7},
          b \in {<<Entry(0, "ok")>>, <<Entry(0, "nover")>>}, n \in Nonces}
  \cup {MadeFor(TxWebauthn(t, a, "r1", TRUE, Wa(0, a, n, "std", v)), f) :
          t \in Payers, f \in Payers, a \in {1, 7}, n \in Nonces, v \in {"ok", "none"}}
CrossPool == {tx \in CrossCalls : BatchVerifies(InstructionsOf(tx))}
SubmitCross == SubmitFrom(CrossPool)

NextCross ==
  \/ SubmitCross
  \/ CreateIdentity
  \/ AddKey
  \/ Execute
  \/ ExecuteWebauthn

SpecCross == Init /\ [][NextCross]_vars

(***************************************************************************)
(* Properties                                                              *)
(***************************************************************************)
\* the Identity the pending call is addressed to
Target == identities[pending.target]
IsExecuteCall == pending.op \in {"execute", "execute_webauthn"}
PendingAction == ActionList[pending.action]

\* C1: every Identity that exists has 1 <= threshold <= number of keys <= 5,
\* in every reachable state, whatever calls were accepted or rejected.
C1_ThresholdBounds ==
  \A p \in Payers :
    identities[p].exists =>
      /\ 1 <= identities[p].threshold
      /\ identities[p].threshold <= Len(identities[p].keys)
      /\ Len(identities[p].keys) <= MAX_KEYS

\* an add_key was refused at the cap while the threshold had been raised to 3
C1_Witness ==
  /\ identities["owner"].exists
  /\ Len(identities["owner"].keys) = MAX_KEYS
  /\ identities["owner"].threshold = 3
  /\ last.op = "add_key" /\ last.err = "MaxKeysReached"

\* C2: an execute_webauthn call on an Identity whose threshold exceeds 1 is
\* rejected: no action is applied and the nonce does not advance.
C2_WebauthnQuorum ==
  [][(pending.op = "execute_webauthn" /\ Target.exists /\ Target.threshold > 1)
       => (~last'.ok /\ identities' = identities /\ vaults' = vaults /\ wallets' = wallets)]_vars

\* the preconditions of the action itself
ActionPreconditions(tx) ==
  LET a == ActionList[tx.action]
      v == vaults[tx.target]
  IN IF a.kind = "Send"
     THEN /\ tx.recipient # "none"
          /\ WalletKey(tx.recipient) = a.to
          /\ v >= a.lamports
          /\ (v - a.lamports = 0 \/ v - a.lamports >= MinBalance)
          /\ tx.cpi_ok
     ELSE 1 <= a.threshold /\ a.threshold <= Len(identities[tx.target].keys)
\* the source lines of the checks of the action step of handler
ActionStepLines == {88, 91, 98, 106, 126, 131, 134}

\* C3: raw execute with threshold T rejects an empty bundle and a bundle with
\* fewer than T distinct matched keys; a bundle of at least T entries with
\* distinct in-range key indices, all matched, passes authorization, and the
\* call succeeds with the nonce advanced when the action's preconditions hold.
C3_RawQuorum ==
  [][(pending.op = "execute" /\ Target.exists) =>
       /\ (Len(pending.sigs) = 0 \/ Cardinality(ValidKeyIndices(pending)) < Target.threshold)
            => ~last'.ok
       /\ (/\ Len(pending.sigs) >= Target.threshold
           /\ DistinctKeyIndices(pending)
           /\ \A i \in 1..Len(pending.sigs) : Matched(pending, i))
            => /\ last'.ok \/ last'.line \in ActionStepLines
               /\ ActionPreconditions(pending)
                    => /\ last'.ok
                       /\ identities'[pending.target].nonce = Target.nonce + 1]_vars

\* a raw execute was accepted while the threshold was 2
C3_Witness == last.op = "execute" /\ last.ok /\ last.threshold = 2

\* C4: an accepted execute call of either kind leaves the nonce exactly one
\* higher, a rejected one leaves it as it was, also when the rejection comes
\* from the action step.
C4_NonceStep ==
  [][IsExecuteCall =>
       identities'[pending.target].nonce =
         IF last'.ok THEN Target.nonce + 1 ELSE Target.nonce]_vars

\* a raw execute passed authorization and failed on the new threshold
C4_Witness == last.op = "execute" /\ ~last.ok /\ last.line = 134

\* C5: a call that was accepted at nonce N and is processed again while the
\* nonce is above N is rejected and changes nothing.
C5_ReplayRejected ==
  [][(/\ IsExecuteCall
      /\ replay.set
      /\ Marked(pending) = replay.tx
      /\ Target.nonce > replay.nonce)
       => (~last'.ok /\ ledger' = ledger)]_vars

\* an accepted raw call was processed a second time
C5_Witness == replay.set /\ replay.resubmitted /\ replay.tx.op = "execute"

\* C6: a raw execute whose bundle names one key index twice is rejected and
\* changes nothing, whatever the verifier instructions and the bundle size.
C6_DuplicateRejected ==
  [][(pending.op = "execute" /\ ~DistinctKeyIndices(pending))
       => (~last'.ok /\ ledger' = ledger)]_vars

\* a raw execute was refused by the duplicate check
C6_Witness == last.op = "execute" /\ ~last.ok /\ last.line = 57

\* C7: the payload of build_secp256r1_instruction parses, and the three
\* extractions return the pubkey, message and signature it was built from.
C7_RoundTrip ==
  codec.stage = "parsed" =>
    /\ codec.parsed.ok
    /\ codec.out_pubkey = Ok(codec.pubkey)
    /\ codec.out_signature = Ok(codec.signature)
    /\ codec.out_message = Ok(codec.message)

\* C8: an execute_webauthn call is accepted only if the challenge decoded
\* from its client data is SHA-256(build_message(action, current nonce)); a
\* challenge made for another action or another nonce is rejected and
\* changes nothing.
C8_ChallengeBound ==
  [][(pending.op = "execute_webauthn" /\ Target.exists) =>
       /\ last'.ok =>
            /\ decode_challenge(ClientDataOf(pending)).ok
            /\ decode_challenge(ClientDataOf(pending)).val =
                 hash(build_message(PendingAction, Target.nonce))
       /\ (/\ pending.wa.json = "std"
           /\ (pending.wa.ch_action # pending.action \/ pending.wa.ch_nonce # Target.nonce))
            => (~last'.ok /\ ledger' = ledger)]_vars

\* a WebAuthn call was refused because its challenge is not the expected hash
C8_Witness == last.op = "execute_webauthn" /\ ~last.ok /\ last.line = 270

\* C9: after an accepted Send the vault holds 0 or at least the minimum
\* balance; a Send above the balance, or leaving a remainder strictly
\* between 0 and the minimum, is rejected and changes nothing.
C9_SendFloor ==
  [][(IsExecuteCall /\ Target.exists /\ PendingAction.kind = "Send") =>
       LET v == vaults[pending.target]
           amount == PendingAction.lamports
       IN /\ last'.ok => (vaults'[pending.target] = 0 \/ vaults'[pending.target] >= MinBalance)
          /\ (amount > v \/ (v - amount > 0 /\ v - amount < MinBalance))
               => (~last'.ok /\ identities' = identities /\ vaults' = vaults /\ wallets' = wallets)]_vars

\* a raw Send was refused because of the remainder it would leave
C9_Witness == last.op = "execute" /\ ~last.ok /\ last.line = 106

\* C10: a rejected call of any kind leaves identities, vaults, recipient
\* balances and the credential registry as they were.
C10_RejectedUnchanged ==
  [][(pending.op # "none" /\ ~last'.ok) => ledger' = ledger]_vars

\* a WebAuthn Send passed authorization and failed on the recipient
C10_Witness == last.op = "execute_webauthn" /\ ~last.ok /\ last.line = 197


\* C11: a raw execute in which some bundle entry has no matching earlier
\* verifier instruction is rejected and changes nothing, also when the other
\* entries are matched, name distinct keys and number at least the threshold.
C11_FailClosed ==
  [][(/\ pending.op = "execute"
      /\ Target.exists
      /\ \E i \in 1..Len(pending.sigs) : ~Matched(pending, i))
       => (~last'.ok /\ ledger' = ledger)]_vars

\* a raw execute was refused by the oracle for one entry while the matched
\* entries alone met the threshold
C11_Witness ==
  /\ last.op = "execute" /\ ~last.ok /\ last.line = 72
  /\ last.matched >= 1 /\ last.matched >= last.threshold

\* some instruction below the call is the verifier instruction over the
\* expected pubkey, signature and message
MatchBelow == \E j \in 1..scan.current_idx : scan.kinds[j] = "match"
\* verifier candidates that fail to parse, fail to extract or do not match
BadKinds == {"pubkey1", "sig1", "msg1", "short", "count2", "oob"}
\* verifier candidates with a source index other than 0xFFFF
CrossKinds == {"sigix", "pkix", "msgix"}

\* C12: when the verifier instruction over the expected triple sits only
\* after the call in the batch, and none sits before it, the oracle fails and
\* the execute call is rejected.
C12_EarlierOnly ==
  (/\ scan.stage = "done"
   /\ \E j \in (scan.current_idx + 2)..Len(scan.kinds) : scan.kinds[j] = "match"
   /\ ~MatchBelow)
    => (~scan.ok /\ scan.err = "SignatureVerificationFailed" /\ ~scan.call_ok)

\* the batch <<call, verifier>> was refused by the oracle
C12_Witness ==
  /\ scan.stage = "done" /\ scan.kinds = <<"call", "match">> /\ scan.current_idx = 0
  /\ ~scan.ok /\ ~scan.call_ok /\ scan.call_line = 72

\* C13: the oracle succeeds exactly when an instruction below the call is
\* addressed to the verifier, parses, and carries the expected pubkey,
\* signature and message; a candidate that differs in one byte of the pubkey
\* (or of the signature or message) does not count, and without a match the
\* error is SignatureVerificationFailed.
C13_OracleIff ==
  scan.stage \in {"verified", "done"} =>
    /\ scan.ok <=> MatchBelow
    /\ ~scan.ok => scan.err = "SignatureVerificationFailed"

\* a verifier instruction whose pubkey differs in one byte was not accepted
C13_Witness ==
  /\ scan.stage = "done" /\ scan.kinds = <<"pubkey1", "call">>
  /\ ~scan.ok /\ scan.err = "SignatureVerificationFailed" /\ ~scan.call_ok

\* C19: a verifier candidate that fails to parse or does not match, sitting
\* between a matching verifier instruction and the call, does not stop the
\* scan: the oracle succeeds and the call passes authorization.
C19_ScanContinues ==
  (/\ scan.stage = "done"
   /\ \E j, k \in 1..scan.current_idx :
        j < k /\ scan.kinds[j] = "match" /\ scan.kinds[k] \in BadKinds \cup CrossKinds)
    => (scan.ok /\ scan.call_ok)

\* the match was found behind a candidate of 15 bytes
C19_Witness ==
  /\ scan.stage = "done" /\ scan.kinds = <<"match", "short", "call">>
  /\ scan.ok /\ scan.call_ok

\* C20: a verifier instruction with a source index other than 0xFFFF for the
\* signature, the pubkey or the message is not accepted although the bytes at
\* its offsets are the expected ones: without another match the oracle fails
\* and the call is rejected.
C20_CrossIndexRejected ==
  (/\ scan.stage = "done"
   /\ \E j \in 1..scan.current_idx : scan.kinds[j] \in CrossKinds
   /\ ~MatchBelow)
    => (~scan.ok /\ ~scan.call_ok)

\* a candidate with pubkey source index 1 was not accepted
C20_Witness ==
  /\ scan.stage = "done" /\ scan.kinds = <<"pkix", "call">>
  /\ ~scan.ok /\ ~scan.call_ok

\* a raw Send whose preconditions hold, on an Identity of 2 keys and threshold 2
QuorumScenario ==
  /\ pending.op = "execute" /\ Target.exists
  /\ Len(Target.keys) = 2 /\ Target.threshold = 2
  /\ PendingAction.kind = "Send" /\ ActionPreconditions(pending)
\* the bundle holds one matched entry / two matched entries for distinct keys
OneValid == Len(pending.sigs) = 1 /\ Matched(pending, 1)
TwoValid ==
  /\ Len(pending.sigs) = 2 /\ DistinctKeyIndices(pending)
  /\ Matched(pending, 1) /\ Matched(pending, 2)
\* the Send was applied: the amount left the vault and reached the recipient
SendApplied ==
  /\ vaults'[pending.target] = vaults[pending.target] - PendingAction.lamports
  /\ wallets'[pending.recipient] = wallets[pending.recipient] + PendingAction.lamports

\* C14 as stated: in the scenario the call with one valid signature is
\* rejected, and the call with two valid signatures for distinct keys
\* succeeds and takes the nonce from 0 to 1, the vault down and the
\* recipient up by the amount.
C14_ScenarioFromNonceZero ==
  [][QuorumScenario =>
       /\ OneValid => ~last'.ok
       /\ TwoValid => /\ last'.ok
                      /\ Target.nonce = 0
                      /\ identities'[pending.target].nonce = 1
                      /\ SendApplied]_vars

\* C14 amended: the same with the nonce going from its value N to N + 1 (N is
\* at least 1 on an Identity whose threshold is 2).
C14_QuorumScenario ==
  [][QuorumScenario =>
       /\ OneValid => (~last'.ok /\ ledger' = ledger)
       /\ TwoValid => /\ last'.ok
                      /\ Target.nonce >= 1
                      /\ identities'[pending.target].nonce = Target.nonce + 1
                      /\ SendApplied]_vars

\* a Send with two matched signatures was accepted while the threshold was 2
C14_Witness ==
  /\ last.op = "execute" /\ last.ok /\ last.threshold = 2 /\ last.matched = 2
  /\ Len(identities["owner"].keys) = 2
  /\ wallets["r1"] > 0 /\ vaults["owner"] + wallets["r1"] = VaultStart

\* C15: add_key on an Identity that holds 5 keys is rejected whatever the
\* pubkey and the name, and leaves the key list as it was; after any call no
\* Identity holds more than 5 keys.
C15_KeyCap ==
  [][/\ (pending.op = "add_key" /\ Target.exists /\ Len(Target.keys) = MAX_KEYS)
          => (~last'.ok /\ identities' = identities)
     /\ \A p \in Payers : Len(identities'[p].keys) <= MAX_KEYS]_vars

\* an add_key with a valid name and a valid new pubkey was refused at 5 keys
C15_Witness ==
  /\ Len(identities["owner"].keys) = MAX_KEYS
  /\ last.op = "add_key" /\ ~last.ok /\ last.line = 43

\* no two keys of the Identity have the same public-key bytes
NoDuplicateKeys(id) ==
  \A i, j \in 1..Len(id.keys) : i # j => id.keys[i].pubkey # id.keys[j].pubkey

\* C16: add_key with a pubkey equal to a registered key of the Identity is
\* rejected and changes nothing; after any call no two keys of an Identity
\* have the same public-key bytes.
C16_DistinctKeys ==
  [][/\ (/\ pending.op = "add_key" /\ Target.exists
         /\ \E i \in 1..Len(Target.keys) : Target.keys[i].pubkey = PubkeyOf(pending.pk))
          => (~last'.ok /\ identities' = identities)
     /\ pending.op # "none" => \A p \in Payers : NoDuplicateKeys(identities'[p])]_vars

\* an add_key was refused because the pubkey is registered already
C16_Witness ==
  /\ last.op = "add_key" /\ ~last.ok /\ last.err = "DuplicateKey" /\ last.line = 50
  /\ Len(identities["owner"].keys) >= 2

\* the header of test_parse_instruction_data (secp256r1.rs:323-332)
TestHeader == <<1, 13, 0, 255, 77, 0, 255, 110, 0, 32, 0, 255>>

\* C17: try_from_slice accepts a payload that is the offsets header alone, in
\* the layout build_secp256r1_instruction and the test write, and returns
\* num_signatures = 1 and the signature_offset and message_size the header
\* encodes (13 and the length of the message).
C17_HeaderAccepted ==
  codec.stage = "header" =>
    /\ codec.header_parsed.ok
    /\ codec.header_parsed.val.num_signatures = 1
    /\ codec.header_parsed.val.signature_offset = 13
    /\ codec.header_parsed.val.message_size = Len(codec.message)

\* the header of the test was handed to try_from_slice
C17_TestVector ==
  /\ codec.stage = "header"
  /\ codec.header = TestHeader
  /\ ~codec.header_parsed.ok
  /\ codec.header_parsed.err = "InvalidSecp256r1Instruction"

\* the handler in progress changes the vault, the recipient or the threshold
ActionEffect ==
  /\ run.pc # "idle" /\ run'.pc # "idle"
  /\ \/ run'.vault # run.vault
     \/ run'.recipient # run.recipient
     \/ run'.identity.threshold # run.identity.threshold
\* the handler in progress changes the nonce
NonceBump ==
  /\ run.pc # "idle" /\ run'.pc # "idle"
  /\ run'.identity.nonce # run.identity.nonce
\* every signature of the pending call is valid for the Identity as stored
AllValidated ==
  IF pending.op = "execute"
  THEN /\ Len(pending.sigs) >= Target.threshold
       /\ Len(pending.sigs) > 0
       /\ DistinctKeyIndices(pending)
       /\ \A i \in 1..Len(pending.sigs) : Matched(pending, i)
  ELSE /\ pending.op = "execute_webauthn"
       /\ pending.wa.json = "std"
       /\ pending.wa.ch_action = pending.action
       /\ pending.wa.ch_nonce = Target.nonce
       /\ pending.wa.verifier = "ok"
       /\ pending.wa.key_index < Len(Target.keys)

\* C18: in an execute call of either kind the nonce is incremented only after
\* every signature was validated and before any effect of the action; when
\* the transfer or the threshold change takes effect the handler's Identity
\* holds the signed nonce plus one, and a call that returns Ok went through
\* validation, increment and action in that order.
C18_Order ==
  [][/\ NonceBump =>
          /\ AllValidated
          /\ run.identity.nonce = run.nonce /\ run.nonce = Target.nonce
          /\ run'.identity.nonce = run.nonce + 1
          /\ run.vault = vaults[pending.target]
          /\ run.identity.threshold = Target.threshold
     /\ ActionEffect =>
          /\ AllValidated
          /\ run.nonce = Target.nonce
          /\ run.identity.nonce = run.nonce + 1
          /\ run'.identity.nonce = run.identity.nonce
     /\ (IsExecuteCall /\ last'.ok) =>
          /\ run.pc = "return"
          /\ AllValidated
          /\ run.identity.nonce = Target.nonce + 1
          /\ identities'[pending.target].nonce = Target.nonce + 1]_vars

\* a raw execute at threshold 2 has made its transfer and is about to return
C18_Witness ==
  /\ run.pc = "return" /\ pending.op = "execute"
  /\ Target.threshold = 2
  /\ run.vault < vaults[pending.target]
  /\ run.recipient > wallets[pending.recipient]
  /\ run.identity.nonce = Target.nonce + 1

\* the statements of a call, once it ends, leave what the handler as a whole
\* computes
StepsAgree ==
  [][(IsExecuteCall /\ pending'.op = "none") =>
       LET r == IF pending.op = "execute" THEN ExecuteResult(pending)
                ELSE WebauthnResult(pending)
       IN /\ last'.ok = r.ok /\ last'.err = r.err /\ last'.line = r.line
          /\ identities' = IF r.ok THEN [identities EXCEPT ![pending.target] = r.identity]
                           ELSE identities
          /\ vaults' = IF r.ok THEN [vaults EXCEPT ![pending.target] = @ - r.lamports]
                       ELSE vaults]_vars


\* C21: the key list of an Identity only grows at its end: every key stays at
\* its index with the same bytes, the list changes only in a successful
\* add_key, which appends exactly one entry, and execute, execute_webauthn
\* and register_credential leave it as it is.
C21_AppendOnly ==
  [][\A p \in Payers :
       LET old == identities[p].keys
           new == identities'[p].keys
       IN /\ Len(new) >= Len(old)
          /\ \A i \in 1..Len(old) : new[i] = old[i]
          /\ (identities[p].exists /\ new # old) =>
               /\ pending.op = "add_key" /\ pending.target = p /\ last'.ok
               /\ Len(new) = Len(old) + 1
               /\ new[Len(new)].pubkey = PubkeyOf(pending.pk)
          /\ (pending.op = "add_key" /\ pending.target = p /\ last'.ok) =>
               Len(new) = Len(old) + 1
          /\ pending.op \in {"execute", "execute_webauthn", "register_credential"} =>
               new = old]_vars

\* a third key was appended after an execute had been accepted
C21_Witness ==
  /\ last.op = "add_key" /\ last.ok
  /\ Len(identities["owner"].keys) = 3
  /\ identities["owner"].keys[1].pubkey = PubkeyList[1]
  /\ identities["owner"].nonce >= 1


\* C22: the threshold of an Identity changes only in an accepted execute of
\* SetThreshold and its nonce only in an accepted execute (of either kind),
\* by exactly one; add_key and register_credential leave both as they are and
\* an accepted Send leaves the threshold; so the nonce never decreases and no
\* two accepted executes see the same nonce.
C22_Frame ==
  [][\A p \in Payers :
       LET old == identities[p]
           new == identities'[p]
           accepted == IsExecuteCall /\ pending.target = p /\ last'.ok
       IN old.exists =>
            /\ new.threshold # old.threshold =>
                 /\ accepted /\ PendingAction.kind = "SetThreshold"
                 /\ new.threshold = PendingAction.threshold
            /\ new.nonce # old.nonce => accepted
            /\ new.nonce >= old.nonce
            /\ accepted => new.nonce = old.nonce + 1
            /\ (accepted /\ PendingAction.kind = "Send") => new.threshold = old.threshold
            /\ pending.op \in {"add_key", "register_credential"} =>
                 (new.threshold = old.threshold /\ new.nonce = old.nonce)]_vars

\* a Send was accepted at threshold 2, after the SetThreshold that raised it
C22_Witness ==
  /\ last.op = "execute" /\ last.ok /\ last.threshold = 2
  /\ identities["owner"].threshold = 2
  /\ identities["owner"].nonce = 2
  /\ wallets["r1"] > 0


\* some entry of the pending bundle names a key index the Identity has not
OutOfRange ==
  /\ pending.op = "execute" /\ Target.exists
  /\ \E i \in 1..Len(pending.sigs) : pending.sigs[i].key_index >= Len(Target.keys)

\* C23: a raw execute whose bundle holds a key_index that is not below the
\* number of registered keys is rejected with InvalidKeyIndex, whatever the
\* other entries and their order.
C23_InvalidKeyIndex ==
  [][OutOfRange => (~last'.ok /\ last'.err = "InvalidKeyIndex")]_vars

\* one key, threshold 1, bundle <<key 0 without verifier instruction, key 1>>:
\* the handler answers SignatureVerificationFailed from the oracle call
C23_EarlierEntryFirst ==
  /\ OutOfRange
  /\ Len(Target.keys) = 1 /\ Target.threshold = 1
  /\ pending.sigs = <<Entry(0, "nover"), Entry(1, "ok")>>
  /\ ExecuteResult(pending).err = "SignatureVerificationFailed"
  /\ ExecuteResult(pending).line = 72

\* what holds of such a bundle: it is rejected with nothing changed, and the
\* error is InvalidKeyIndex when the bundle has the size of the threshold, no
\* repeated index, and only matched entries before the first one out of range
C23_Rejected ==
  [][OutOfRange =>
       /\ ~last'.ok /\ ledger' = ledger
       /\ last'.err = "InvalidKeyIndex" <=>
            /\ Len(pending.sigs) >= Target.threshold
            /\ DistinctKeyIndices(pending)
            /\ \E i \in 1..Len(pending.sigs) :
                 /\ pending.sigs[i].key_index >= Len(Target.keys)
                 /\ \A j \in 1..(i - 1) : Matched(pending, j)]_vars


\* the registry entries of the Identity of payer p
EntriesOf(p) == {e \in registry : e.identity = p}

\* C24: a registry entry is bound to the index of the key added last when it
\* was registered and addressed by (identity, that key index); there is at
\* most one entry per key index, and a second register_credential for the
\* same key is rejected.
C24_OnePerKey ==
  [][/\ \A e \in registry' :
          /\ e.seed = e.key_index
          /\ \A f \in registry' :
               (f.identity = e.identity /\ f.key_index = e.key_index) => f = e
     /\ (pending.op = "register_credential" /\ Target.exists) =>
          /\ last'.ok => \E e \in registry' \ registry :
                           /\ e.identity = pending.target
                           /\ e.key_index = Len(Target.keys) - 1
                           /\ registry' = registry \cup {e}
          /\ (\E e \in EntriesOf(pending.target) : e.key_index = Len(Target.keys) - 1)
               => (~last'.ok /\ registry' = registry)]_vars

\* the entry registered for key 0 of the owner lies at seed 1
C24_SeedIsKeyCount ==
  /\ last.op = "register_credential" /\ last.ok
  /\ \E e \in registry : e.identity = "owner" /\ e.key_index = 0 /\ e.seed = 1

\* what holds of the registry: the same with the address one above the key
\* index, identity.keys.len() at the time of the registration
C24_OnePerKeyCount ==
  [][/\ \A e \in registry' :
          /\ e.seed = e.key_index + 1
          /\ \A f \in registry' :
               (f.identity = e.identity /\ f.key_index = e.key_index) => f = e
     /\ (pending.op = "register_credential" /\ Target.exists) =>
          /\ last'.ok => \E e \in registry' \ registry :
                           /\ e.identity = pending.target
                           /\ e.key_index = Len(Target.keys) - 1
                           /\ registry' = registry \cup {e}
          /\ (\E e \in EntriesOf(pending.target) : e.key_index = Len(Target.keys) - 1)
               => (~last'.ok /\ registry' = registry)]_vars


\* the pending add_key comes from the owner of the Identity and brings a
\* valid pubkey that is not registered yet, while fewer than 5 keys are held
OwnerAddsNewKey ==
  /\ pending.op = "add_key" /\ Target.exists
  /\ pending.signer = pending.target
  /\ ValidPrefix(PubkeyOf(pending.pk))
  /\ \A i \in 1..Len(Target.keys) : Target.keys[i].pubkey # PubkeyOf(pending.pk)
  /\ Len(Target.keys) < MAX_KEYS
\* the device name of the pending call has 1 to 32 bytes
ValidDeviceName ==
  Len(NameList[pending.name]) >= 1 /\ Len(NameList[pending.name]) <= MAX_NAME_LEN
\* the pending call is signed by someone else than the owner of its Identity
ForeignCall ==
  pending.op \in {"add_key", "register_credential"} /\ pending.signer # pending.target

\* C25 as stated: an add_key by the owner with a valid new pubkey below 5
\* keys succeeds at every threshold and without signatures, and a call by
\* another party never changes the key list.
C25_OwnerAlone ==
  [][/\ OwnerAddsNewKey =>
          /\ last'.ok
          /\ identities'[pending.target].keys =
               Append(Target.keys, RegisteredKey(PubkeyOf(pending.pk), NameList[pending.name]))
     /\ ForeignCall => identities' = identities]_vars

\* C25 with the device name: an add_key by the owner with a valid new pubkey
\* and a device name of 1 to 32 bytes below 5 keys succeeds at every threshold
\* and without signatures, and a call by another party never changes the key
\* list.
C25_OwnerAloneNamed ==
  [][/\ (OwnerAddsNewKey /\ ValidDeviceName) =>
          /\ last'.ok
          /\ identities'[pending.target].keys =
               Append(Target.keys, RegisteredKey(PubkeyOf(pending.pk), NameList[pending.name]))
     /\ ForeignCall => identities' = identities]_vars

\* the owner added a third key alone while the threshold was 2
C25_Witness ==
  /\ last.op = "add_key" /\ last.ok /\ last.threshold = 2
  /\ Len(identities["owner"].keys) = 3
  /\ identities["owner"].threshold = 2


\* a later copy of the call is about to run in the batch
LaterCall == batch.stage = "running" /\ batch.k >= 2 /\ batch.k <= batch.calls
\* the errors of the validation part of the execute handlers
ValidationErrors ==
  {"ThresholdNotMet", "SignatureVerificationFailed", "InvalidKeyIndex", "InvalidWebAuthnData"}

\* C26: in one batch, a second execute call (raw or WebAuthn) with the same
\* action and signature records, relying on the same verifier instructions,
\* is rejected in validation once the first has advanced the nonce; no batch
\* applies the action more than once, and an accepted batch holds one call.
C26_OncePerBatch ==
  [][/\ LaterCall =>
          /\ batch.identity.nonce = Target.nonce + 1
          /\ ~last'.ok /\ last'.err \in ValidationErrors
          /\ batch'.stage = "aborted" /\ batch'.applied = 1
          /\ ledger' = ledger
     /\ batch'.applied <= 1
     /\ (IsExecuteCall /\ last'.ok) =>
          /\ batch.calls = 1 /\ batch.applied = 1
          /\ identities'[pending.target].nonce = Target.nonce + 1]_vars

\* a batch with the Send twice: the first copy made the transfer, the second
\* was refused by the oracle and the vault is as before the batch
C26_Witness ==
  /\ batch.stage = "aborted" /\ batch.calls = 2 /\ batch.k = 2 /\ batch.applied = 1
  /\ batch.vault < vaults["owner"]
  /\ vaults["owner"] = VaultStart /\ wallets["r1"] = 0
  /\ last.op = "execute" /\ ~last.ok
  /\ last.err = "SignatureVerificationFailed" /\ last.line = 72


\* the signatures and verifier instructions of call tx pass the validation
\* of the execute handlers on the Identity of payer p
Authorizes(tx, p) ==
  /\ identities[p].exists
  /\ IF tx.op = "execute"
     THEN handler_execute_validate(identities[p], ActionList[tx.action], BundleOf(tx),
                                   InstructionsOf(tx), CurrentIdxOf(tx))[1] = "none"
     ELSE handler_webauthn_validate(identities[p], ActionList[tx.action], WebauthnSigOf(tx),
                                    InstructionsOf(tx), CurrentIdxOf(tx))[1] = "none"
\* the pending execute was signed for another Identity than the one it is
\* sent to; both register the same first key and hold the same nonce, and
\* the signatures authorize the action on the Identity they were made for
SentToOther ==
  /\ IsExecuteCall
  /\ pending.made_for # pending.target
  /\ Target.exists /\ identities[pending.made_for].exists
  /\ Target.keys[1].pubkey = identities[pending.made_for].keys[1].pubkey
  /\ Target.nonce = identities[pending.made_for].nonce
  /\ Authorizes(pending, pending.made_for)

\* C27: with two Identities that register the same public key and hold the
\* same nonce, verifier instructions and signature records that authorize an
\* action on one Identity never make an execute call on the other succeed.
C27_BoundToIdentity ==
  [][SentToOther => ~last'.ok]_vars

\* a Send signed for the owner's Identity is pending on the other Identity,
\* and the handler moves lamports out of the other vault
C27_CrossReplay ==
  /\ SentToOther
  /\ pending.op = "execute"
  /\ pending.made_for = "owner" /\ pending.target = "other"
  /\ ExecuteResult(pending).ok
  /\ ExecuteResult(pending).lamports > 0

====
